---- MODULE Spec2Model ----
(***************************************************************************)
(* Model of the banking multi-agent workshop: the conversational routing   *)
(* graph of banking_agents.py and the transfer paths of transactions.py,   *)
(* mcp_server.py and mcp_http_server.py.                                   *)
(***************************************************************************)
EXTENDS Integers, Sequences, FiniteSets, TLC

\* ------------------------------------------------------------------------
\* Bounds
\* ------------------------------------------------------------------------
\* longest message list of a response handed to the handoff extraction
MaxMsgs == 3
\* longest message list of a response a handler of the routing graph receives
MaxRouteMsgs == 1
\* largest initial balance of an account
MaxBalance == 2
\* largest amount a caller passes (the smallest is -1)
MaxAmount == 2
\* transfers begun in one behaviour
MaxCalls == 1
\* store errors a run may inject
MaxFaults == 5
\* tool calls a dispatcher serves in a run
MaxRequests == 2

\* ------------------------------------------------------------------------
\* Routing graph: nodes, threads, configs
\* ------------------------------------------------------------------------
\* banking_agents.py:247
agents == {"coordinator_agent", "customer_support_agent", "sales_agent", "transactions_agent"}

\* banking_agents.py:238-242
Nodes == agents \cup {"human"}

Threads == {"T1"}

\* config["configurable"] of a thread: interactive_chat passes Contoso/Mark,
\* the handlers of the interactive mode write under cli-test/cli-test
Configs == {[tenantId |-> "cli-test", userId |-> "cli-test"],
            [tenantId |-> "Contoso", userId |-> "Mark"]}

\* partition_key=[tenantId, userId, thread_id]
PartitionKey(tenantId, userId, thread_id) == <<tenantId, userId, thread_id>>

Keys == {PartitionKey(c.tenantId, c.userId, t) : c \in Configs, t \in Threads}

\* ------------------------------------------------------------------------
\* Messages and the decoding of tool-message content
\* ------------------------------------------------------------------------
\* raw content strings of tool messages
GotoContent(a) == "{\"goto\": \"" \o a \o "\"}"

ToolContents ==
    {GotoContent(a) : a \in Nodes \cup {"billing_agent"}}
    \cup {"{\"goto\": \"sales_agent\", \"status\": \"success\"}",
          "{\"status\": \"success\"}",
          "Successfully transferred to sales agent",
          "\"goto\""}

Messages == [type : {"tool"}, content : ToolContents]
            \cup [type : {"ai"}, content : {"How can I help?"}]

RECURSIVE SeqsUpTo(_, _)
SeqsUpTo(S, n) ==
    IF n = 0 THEN {<<>>}
    ELSE LET shorter == SeqsUpTo(S, n - 1)
         IN  shorter \cup {Append(s, x) : s \in {q \in shorter : Len(q) = n - 1}, x \in S}

\* what <agent>.ainvoke can return: a dict with a "messages" list, or a dict
\* without that key
Responses == [messages : SeqsUpTo(Messages, MaxMsgs)] \cup {[output |-> "none"]}

\* json.loads: the decoded value, or a raised error.  text is the value of a
\* decoded JSON string
json_loads(s) ==
    IF \E a \in Nodes \cup {"billing_agent"} : s = GotoContent(a)
    THEN [raised |-> FALSE, kind |-> "object", keys |-> {"goto"},
          goto |-> CHOOSE a \in Nodes \cup {"billing_agent"} : s = GotoContent(a),
          text |-> ""]
    ELSE IF s = "{\"goto\": \"sales_agent\", \"status\": \"success\"}"
    THEN [raised |-> FALSE, kind |-> "object", keys |-> {"goto", "status"},
          goto |-> "sales_agent", text |-> ""]
    ELSE IF s = "{\"status\": \"success\"}"
    THEN [raised |-> FALSE, kind |-> "object", keys |-> {"status"}, goto |-> "none",
          text |-> ""]
    ELSE IF s = "\"goto\""
    THEN [raised |-> FALSE, kind |-> "string", keys |-> {}, goto |-> "none",
          text |-> "goto"]
    ELSE [raised |-> TRUE, kind |-> "none", keys |-> {}, goto |-> "none", text |-> ""]

\* isinstance(m, ToolMessage)
IsToolMessage(m) == m.type = "tool"

\* the try block for one ToolMessage under an except clause that catches only
\* the decoding error: the TypeError of <str>["goto"] escapes
TryGotoNarrowExcept(m) ==
    LET content == json_loads(m.content)
    IN  IF content.raised
        THEN [found |-> FALSE, goto |-> "none", escaped |-> FALSE]
        ELSE IF content.kind = "object" /\ "goto" \in content.keys
        THEN [found |-> TRUE, goto |-> content.goto, escaped |-> FALSE]
        ELSE [found |-> FALSE, goto |-> "none",
              escaped |-> (content.kind = "string" /\ content.text = "goto")]

\* the try block for one ToolMessage: found = the function returns goto here;
\* otherwise the loop goes on (nothing to return, or the except branch ran);
\* escaped = an error leaves the function
TryGoto(m) ==
    LET content == json_loads(m.content)
    IN  IF content.raised
        THEN [found |-> FALSE, goto |-> "none", escaped |-> FALSE]
        ELSE IF content.kind = "object" /\ "goto" \in content.keys
        THEN [found |-> TRUE, goto |-> content.goto, escaped |-> FALSE]
        \* "goto" in <str> is a substring test; <str>["goto"] then raises
        \* TypeError, which except Exception swallows
        ELSE [found |-> FALSE, goto |-> "none", escaped |-> FALSE]

\* response.get("messages", [])
ResponseMessages(response) ==
    IF "messages" \in DOMAIN response THEN response.messages ELSE <<>>

Raised == "<raised>"

\* a scan that keeps the last goto it finds
RECURSIVE ScanFromLastWins(_, _)
ScanFromLastWins(messages, i) ==
    IF i > Len(messages) THEN "human"
    ELSE LET later == ScanFromLastWins(messages, i + 1)
         IN  IF later # "human" THEN later
             ELSE IF IsToolMessage(messages[i]) /\ TryGoto(messages[i]).found
                  THEN TryGoto(messages[i]).goto
                  ELSE "human"

\* for m in messages: ... return goto_target;  return "human"
RECURSIVE ScanFrom(_, _)
ScanFrom(messages, i) ==
    IF i > Len(messages) THEN "human"
    ELSE IF ~IsToolMessage(messages[i]) THEN ScanFrom(messages, i + 1)
    ELSE IF TryGoto(messages[i]).escaped THEN Raised
    ELSE IF TryGoto(messages[i]).found THEN TryGoto(messages[i]).goto
    ELSE ScanFrom(messages, i + 1)

extract_goto_from_tool_messages(response, agent_name) ==
    ScanFrom(ResponseMessages(response), 1)

\* ------------------------------------------------------------------------
\* State
\* ------------------------------------------------------------------------
VARIABLES
    chat_container,          \* key -> persisted activeAgent, or Absent
    local_interactive_mode,  \* banking_agents.py:19, set by interactive_chat
    cfg,                     \* thread -> config["configurable"] of its turns
    node,                    \* thread -> node of the graph that runs next
    via,                     \* thread -> what the coordinator decided this turn
    last,                    \* the latest handler execution
    graph,                   \* thread -> the superstep of its run of the compiled graph
    x,                       \* input and result of the handoff extraction
    accounts,                \* account number -> stored balance
    transactions,            \* the stored Transaction records
    pc,                      \* caller -> its position in a transfer
    call,                    \* caller -> arguments and locals of its transfer
    pre,                     \* caller -> the store when its transfer began
    calls,                   \* transfers begun so far
    faults,                  \* store errors still to come
    tool_call,               \* the tool call a dispatcher is serving, and its response
    MOCK_ACCOUNTS,           \* simple_mcp_server.py: account number -> balance
    cached_server_instance,  \* mcp_server.py:34, the singleton or NoInstance
    cached_azure_services,   \* mcp_server.py:35, the table the singleton was given
    azure_services_cache,    \* mcp_server.py:739, the service table or None
    made,                    \* instances constructed, tables built, calls made
    got                      \* caller -> what its latest calls returned

routingVars == <<chat_container, local_interactive_mode, cfg, node, via, last, graph>>

ledgerVars == <<accounts, transactions, pc, call, pre, calls, faults>>

dispatchVars == <<tool_call, MOCK_ACCOUNTS>>

cacheVars == <<cached_server_instance, cached_azure_services, azure_services_cache,
               made, got>>

vars == <<chat_container, local_interactive_mode, cfg, node, via, last, graph, x,
          accounts, transactions, pc, call, pre, calls, faults,
          tool_call, MOCK_ACCOUNTS,
          cached_server_instance, cached_azure_services, azure_services_cache,
          made, got>>

\* ------------------------------------------------------------------------
\* Ledger: accounts, callers, result texts
\* ------------------------------------------------------------------------
\* account numbers that exist; X is the number of no account
Accounts == {"A", "B"}

AccountNumbers == Accounts \cup {"X"}

Amounts == (-1)..MaxAmount

Procs == {"p1", "p2"}

\* transactions.py:48
max_attempts == 5

NotFoundText == "Account not found for tenant and user"  \* transactions.py:46
WriteFailedText == "Failed to create transaction record after 5 attempts"  \* transactions.py:72
LegDoneText == "Successfully transferred to account number"  \* transactions.py:75
DebitFailedText == "Failed to debit amount from account"  \* transactions.py:27
CreditFailedText == "Failed to credit amount to account"  \* transactions.py:31
TransferredText == "Successfully transferred from account to account"  \* transactions.py:33
AmountText == "Transfer amount must be greater than zero."  \* mcp_server.py:351
SourceNotFoundText == "Source account not found"  \* mcp_server.py:366
DestNotFoundText == "Destination account not found."  \* mcp_server.py:374
InsufficientText == "Insufficient funds"  \* mcp_server.py:369
TransferFailedText == "Transfer failed"  \* mcp_server.py:423
MissingParamsText == "Error: Missing or invalid parameters"  \* mcp_http_server.py:168
ProcessingErrorText == "Error processing transfer"  \* mcp_http_server.py:237

\* "Failed" in <result of bank_transaction>
ContainsFailed(text) == text = WriteFailedText

NoCall == [path |-> "-", fromAccount |-> "-", toAccount |-> "-", amount |-> 0,
           thread_id |-> "", leg |-> "-", balance |-> 0, to_balance |-> 0,
           latest |-> 0, attempt |-> 0, result |-> "-"]

NoPre == [accounts |-> <<>>, transactions |-> {}]

\* ------------------------------------------------------------------------
\* Account and transaction store (services.azure_cosmos_db)
\* ------------------------------------------------------------------------
fetch_account_by_number(accts, account_number) ==
    IF account_number \in DOMAIN accts
    THEN [found |-> TRUE, accountId |-> account_number, balance |-> accts[account_number]]
    ELSE [found |-> FALSE, accountId |-> "-", balance |-> 0]

Max(S) == CHOOSE m \in S : \A n \in S : n <= m

fetch_latest_transaction_number(txns, account_number) ==
    Max({r.number : r \in {q \in txns : q.accountId = account_number}} \cup {0})

\* a record whose id the account already holds is refused
write_conflict(txns, data) ==
    \E r \in txns : r.id = data.id /\ r.accountId = data.accountId

create_transaction_record(txns, data) == txns \cup {data}

patch_account_record(accts, accountId, balance) ==
    [accts EXCEPT ![accountId] = balance]

\* ------------------------------------------------------------------------
\* transactions.py: transfer and bank_transaction
\* ------------------------------------------------------------------------
SetCall(p, c, next_pc) ==
    /\ call' = [call EXCEPT ![p] = c]
    /\ pc' = [pc EXCEPT ![p] = next_pc]

Begin(p) ==
    /\ pc[p] = "idle"
    /\ calls < MaxCalls
    /\ calls' = calls + 1
    /\ pre' = [pre EXCEPT ![p] = [accounts |-> accounts, transactions |-> transactions]]

\* f"{account_number}-{latest_transaction_number + 1}"
transaction_id(account_number, latest_transaction_number) ==
    account_number \o "-" \o ToString(latest_transaction_number + 1)

leg_account(c) == IF c.leg = "debit" THEN c.fromAccount ELSE c.toAccount

credit_account(c) == IF c.leg = "credit" THEN c.amount ELSE 0

debit_account(c) == IF c.leg = "debit" THEN c.amount ELSE 0

\* new_balance = account["balance"] + credit_account - debit_account
new_balance(c) == c.balance + credit_account(c) - debit_account(c)

transaction_data(c) ==
    [id |-> transaction_id(leg_account(c), c.latest),
     accountId |-> leg_account(c),
     debitAmount |-> debit_account(c),
     creditAmount |-> credit_account(c),
     accountBalance |-> new_balance(c),
     number |-> c.latest + 1]

\* a transfer that goes on to the credit leg whatever the debit leg returned
after_leg_credit_anyway(p, c, text) ==
    IF c.leg = "debit"
    THEN SetCall(p, [c EXCEPT !.leg = "credit"], "bt_fetch_account")
    ELSE IF ContainsFailed(text)
         THEN SetCall(p, [c EXCEPT !.result = CreditFailedText], "done")
         ELSE SetCall(p, [c EXCEPT !.result = TransferredText], "done")

\* a transfer that reports success once the debit leg went through
after_leg_credit_failure_hidden(p, c, text) ==
    IF c.leg = "debit"
    THEN IF ContainsFailed(text)
         THEN SetCall(p, [c EXCEPT !.result = DebitFailedText], "done")
         ELSE SetCall(p, [c EXCEPT !.leg = "credit"], "bt_fetch_account")
    ELSE SetCall(p, [c EXCEPT !.result = TransferredText], "done")

\* transfer(): what follows the return of a leg with the given text
after_leg(p, c, text) ==
    IF c.leg = "debit"
    THEN IF ContainsFailed(text)
         THEN SetCall(p, [c EXCEPT !.result = DebitFailedText], "done")
         ELSE SetCall(p, [c EXCEPT !.leg = "credit"], "bt_fetch_account")
    ELSE IF ContainsFailed(text)
         THEN SetCall(p, [c EXCEPT !.result = CreditFailedText], "done")
         ELSE SetCall(p, [c EXCEPT !.result = TransferredText], "done")

\* a loop that gives up at the first failure
attempt_failed_no_retry(p, c) == after_leg(p, c, WriteFailedText)

\* a loop that gives up one attempt later
attempt_failed_one_more(p, c) ==
    IF c.attempt = max_attempts
    THEN after_leg(p, c, WriteFailedText)
    ELSE SetCall(p, [c EXCEPT !.attempt = c.attempt + 1], "bt_fetch_latest")

\* except Exception: return after the last attempt, else the next attempt
attempt_failed(p, c) ==
    IF c.attempt = max_attempts - 1
    THEN after_leg(p, c, WriteFailedText)
    ELSE SetCall(p, [c EXCEPT !.attempt = c.attempt + 1], "bt_fetch_latest")

\* the tool is called
transfer(p) ==
    /\ Begin(p)
    /\ \E toAccount \in AccountNumbers, fromAccount \in AccountNumbers, amount \in Amounts :
         SetCall(p, [NoCall EXCEPT !.path = "transfer", !.fromAccount = fromAccount,
                                   !.toAccount = toAccount, !.amount = amount,
                                   !.leg = "debit"],
                 "bt_fetch_account")
    /\ UNCHANGED <<routingVars, x, cacheVars, dispatchVars, accounts, transactions, faults>>

\* account = fetch_account_by_number(...); if not account: return "... not found ..."
bt_fetch_account(p) ==
    /\ pc[p] = "bt_fetch_account"
    /\ LET c == call[p]
           account == fetch_account_by_number(accounts, leg_account(c))
       IN  IF ~account.found
           THEN after_leg(p, c, NotFoundText)
           ELSE SetCall(p, [c EXCEPT !.balance = account.balance, !.attempt = 0],
                        "bt_fetch_latest")
    /\ UNCHANGED <<routingVars, x, cacheVars, dispatchVars, accounts, transactions, pre, calls, faults>>

\* latest_transaction_number = fetch_latest_transaction_number(account_number)
bt_fetch_latest(p) ==
    /\ pc[p] = "bt_fetch_latest"
    /\ LET c == call[p]
       IN  \/ /\ SetCall(p, [c EXCEPT !.latest =
                                fetch_latest_transaction_number(transactions, leg_account(c))],
                         "bt_create")
              /\ UNCHANGED faults
           \/ /\ faults > 0
              /\ faults' = faults - 1
              /\ attempt_failed(p, c)
    /\ UNCHANGED <<routingVars, x, cacheVars, dispatchVars, accounts, transactions, pre, calls>>

\* create_transaction_record(transaction_data); break
bt_create(p) ==
    /\ pc[p] = "bt_create"
    /\ LET c == call[p]
           data == transaction_data(c)
       IN  \/ /\ ~write_conflict(transactions, data)
              /\ transactions' = create_transaction_record(transactions, data)
              /\ SetCall(p, c, "bt_patch")
              /\ UNCHANGED faults
           \/ /\ write_conflict(transactions, data)
              /\ attempt_failed(p, c)
              /\ UNCHANGED <<transactions, faults>>
           \/ /\ faults > 0
              /\ faults' = faults - 1
              /\ attempt_failed(p, c)
              /\ UNCHANGED transactions
    /\ UNCHANGED <<routingVars, x, cacheVars, dispatchVars, accounts, pre, calls>>

\* a patch that subtracts from the balance stored at the time of the patch
bt_patch_stored(p) ==
    /\ pc[p] = "bt_patch"
    /\ LET c == call[p]
       IN  /\ accounts' = patch_account_record(accounts, leg_account(c),
                              accounts[leg_account(c)] + credit_account(c) - debit_account(c))
           /\ after_leg(p, c, LegDoneText)
    /\ UNCHANGED <<routingVars, x, cacheVars, dispatchVars, transactions, pre, calls, faults>>

\* patch_account_record(tenantId, account["accountId"], new_balance); return
bt_patch(p) ==
    /\ pc[p] = "bt_patch"
    /\ LET c == call[p]
       IN  /\ accounts' = patch_account_record(accounts, leg_account(c), new_balance(c))
           /\ after_leg(p, c, LegDoneText)
    /\ UNCHANGED <<routingVars, x, cacheVars, dispatchVars, transactions, pre, calls, faults>>

\* ------------------------------------------------------------------------
\* mcp_server.py: _call_bank_transfer_direct
\* ------------------------------------------------------------------------
Finish(p, c, text) == SetCall(p, [c EXCEPT !.result = text], "done")

\* a store call of the try block raised: except Exception -> "Transfer failed: ..."
StoreError(p, c, text) ==
    /\ faults > 0
    /\ faults' = faults - 1
    /\ Finish(p, c, text)

\* the checks before the try block
_call_bank_transfer_direct(p) ==
    /\ Begin(p)
    /\ \E toAccount \in AccountNumbers, fromAccount \in AccountNumbers, amount \in Amounts :
         LET c == [NoCall EXCEPT !.path = "direct", !.fromAccount = fromAccount,
                                 !.toAccount = toAccount, !.amount = amount]
         IN  IF amount <= 0
             THEN Finish(p, c, AmountText)
             ELSE SetCall(p, c, "d_fetch_from")
    /\ UNCHANGED <<routingVars, x, cacheVars, dispatchVars, accounts, transactions, faults>>

\* from_account_data = fetch_account_by_number(from_account, ...) and the
\* two checks on it
d_fetch_from(p) ==
    /\ pc[p] = "d_fetch_from"
    /\ LET c == call[p]
           from_account_data == fetch_account_by_number(accounts, c.fromAccount)
       IN  IF ~from_account_data.found
           THEN Finish(p, c, SourceNotFoundText)
           ELSE IF from_account_data.balance < c.amount
           THEN Finish(p, c, InsufficientText)
           ELSE SetCall(p, [c EXCEPT !.balance = from_account_data.balance], "d_fetch_to")
    /\ UNCHANGED <<routingVars, x, cacheVars, dispatchVars, accounts, transactions, pre, calls, faults>>

\* to_account_data = fetch_account_by_number(to_account, ...)
d_fetch_to(p) ==
    /\ pc[p] = "d_fetch_to"
    /\ LET c == call[p]
           to_account_data == fetch_account_by_number(accounts, c.toAccount)
       IN  IF ~to_account_data.found
           THEN Finish(p, c, DestNotFoundText)
           ELSE SetCall(p, [c EXCEPT !.to_balance = to_account_data.balance],
                        "d_latest_debit")
    /\ UNCHANGED <<routingVars, x, cacheVars, dispatchVars, accounts, transactions, pre, calls, faults>>

\* next_txn_number = fetch_latest_transaction_number(from_account)
d_latest_debit(p) ==
    /\ pc[p] = "d_latest_debit"
    /\ LET c == call[p]
       IN  \/ /\ SetCall(p, [c EXCEPT !.latest =
                                fetch_latest_transaction_number(transactions, c.fromAccount)],
                         "d_create_debit")
              /\ UNCHANGED faults
           \/ StoreError(p, c, TransferFailedText)
    /\ UNCHANGED <<routingVars, x, cacheVars, dispatchVars, accounts, transactions, pre, calls>>

debit_txn_data(c) ==
    [id |-> transaction_id(c.fromAccount, c.latest),
     accountId |-> c.fromAccount,
     debitAmount |-> c.amount,
     creditAmount |-> 0,
     accountBalance |-> c.balance - c.amount,
     number |-> c.latest + 1]

credit_txn_data(c) ==
    [id |-> transaction_id(c.toAccount, c.latest),
     accountId |-> c.toAccount,
     debitAmount |-> 0,
     creditAmount |-> c.amount,
     accountBalance |-> c.to_balance + c.amount,
     number |-> c.latest + 1]

\* create_transaction_record(debit_txn_data)
d_create_debit(p) ==
    /\ pc[p] = "d_create_debit"
    /\ LET c == call[p]
           data == debit_txn_data(c)
       IN  \/ /\ ~write_conflict(transactions, data)
              /\ transactions' = create_transaction_record(transactions, data)
              /\ SetCall(p, c, "d_patch_from")
              /\ UNCHANGED faults
           \/ /\ write_conflict(transactions, data)
              /\ Finish(p, c, TransferFailedText)
              /\ UNCHANGED <<transactions, faults>>
           \/ /\ StoreError(p, c, TransferFailedText)
              /\ UNCHANGED transactions
    /\ UNCHANGED <<routingVars, x, cacheVars, dispatchVars, accounts, pre, calls>>

\* a patch that debits the balance stored now instead of the snapshot
d_patch_from_stored(p) ==
    /\ pc[p] = "d_patch_from"
    /\ LET c == call[p]
       IN  /\ accounts' = patch_account_record(accounts, c.fromAccount,
                                                accounts[c.fromAccount] - c.amount)
           /\ SetCall(p, c, "d_latest_credit")
    /\ UNCHANGED <<routingVars, x, cacheVars, dispatchVars, transactions, pre, calls, faults>>

\* patch_account_record(tenant_id, from_account_data["accountId"], balance - amount)
d_patch_from(p) ==
    /\ pc[p] = "d_patch_from"
    /\ LET c == call[p]
       IN  /\ accounts' = patch_account_record(accounts, c.fromAccount, c.balance - c.amount)
           /\ SetCall(p, c, "d_latest_credit")
    /\ UNCHANGED <<routingVars, x, cacheVars, dispatchVars, transactions, pre, calls, faults>>

\* next_credit_txn_number = fetch_latest_transaction_number(to_account)
d_latest_credit(p) ==
    /\ pc[p] = "d_latest_credit"
    /\ LET c == call[p]
       IN  \/ /\ SetCall(p, [c EXCEPT !.latest =
                                fetch_latest_transaction_number(transactions, c.toAccount)],
                         "d_create_credit")
              /\ UNCHANGED faults
           \/ StoreError(p, c, TransferFailedText)
    /\ UNCHANGED <<routingVars, x, cacheVars, dispatchVars, accounts, transactions, pre, calls>>

\* create_transaction_record(credit_txn_data)
d_create_credit(p) ==
    /\ pc[p] = "d_create_credit"
    /\ LET c == call[p]
           data == credit_txn_data(c)
       IN  \/ /\ ~write_conflict(transactions, data)
              /\ transactions' = create_transaction_record(transactions, data)
              /\ SetCall(p, c, "d_patch_to")
              /\ UNCHANGED faults
           \/ /\ write_conflict(transactions, data)
              /\ Finish(p, c, TransferFailedText)
              /\ UNCHANGED <<transactions, faults>>
           \/ /\ StoreError(p, c, TransferFailedText)
              /\ UNCHANGED transactions
    /\ UNCHANGED <<routingVars, x, cacheVars, dispatchVars, accounts, pre, calls>>

\* patch_account_record(tenant_id, to_account_data["accountId"], balance + amount)
d_patch_to(p) ==
    /\ pc[p] = "d_patch_to"
    /\ LET c == call[p]
       IN  /\ accounts' = patch_account_record(accounts, c.toAccount, c.to_balance + c.amount)
           /\ Finish(p, c, TransferredText)
    /\ UNCHANGED <<routingVars, x, cacheVars, dispatchVars, transactions, pre, calls, faults>>

\* ------------------------------------------------------------------------
\* mcp_http_server.py: call_bank_transfer
\* ------------------------------------------------------------------------
\* f"T{transaction_number:06d}"
http_transaction_id(transaction_number) ==
    "T" \o (IF transaction_number < 10 THEN "00000"
            ELSE IF transaction_number < 100 THEN "0000"
            ELSE IF transaction_number < 1000 THEN "000"
            ELSE IF transaction_number < 10000 THEN "00"
            ELSE IF transaction_number < 100000 THEN "0"
            ELSE "") \o ToString(transaction_number)

http_transaction_data(c) ==
    [id |-> http_transaction_id(c.latest + 1),
     accountId |-> c.fromAccount,
     amount |-> 0 - c.amount,
     balance |-> c.balance - c.amount,
     number |-> c.latest + 1]

\* the parameter checks before the try block
call_bank_transfer(p) ==
    /\ Begin(p)
    /\ \E toAccount \in AccountNumbers, fromAccount \in AccountNumbers, amount \in Amounts,
          thread_id \in {"", "T1"} :
         LET c == [NoCall EXCEPT !.path = "http", !.fromAccount = fromAccount,
                                 !.toAccount = toAccount, !.amount = amount,
                                 !.thread_id = thread_id]
         IN  IF thread_id = "" \/ amount <= 0
             THEN Finish(p, c, MissingParamsText)
             ELSE SetCall(p, c, "h_fetch_source")
    /\ UNCHANGED <<routingVars, x, cacheVars, dispatchVars, accounts, transactions, faults>>

\* source_account = fetch_account_by_number(...) and the balance check
h_fetch_source(p) ==
    /\ pc[p] = "h_fetch_source"
    /\ LET c == call[p]
           source_account == fetch_account_by_number(accounts, c.fromAccount)
       IN  IF ~source_account.found
           THEN Finish(p, c, SourceNotFoundText)
           ELSE IF source_account.balance < c.amount
           THEN Finish(p, c, InsufficientText)
           ELSE SetCall(p, [c EXCEPT !.balance = source_account.balance], "h_patch_source")
    /\ UNCHANGED <<routingVars, x, cacheVars, dispatchVars, accounts, transactions, pre, calls, faults>>

\* patch_account_record(tenant_id, source_account_id, new_source_balance)
h_patch_source(p) ==
    /\ pc[p] = "h_patch_source"
    /\ LET c == call[p]
       IN  /\ accounts' = patch_account_record(accounts, c.fromAccount, c.balance - c.amount)
           /\ SetCall(p, c, "h_fetch_dest")
    /\ UNCHANGED <<routingVars, x, cacheVars, dispatchVars, transactions, pre, calls, faults>>

\* dest_account = fetch_account_by_number(...); a missing one is skipped
h_fetch_dest(p) ==
    /\ pc[p] = "h_fetch_dest"
    /\ LET c == call[p]
           dest_account == fetch_account_by_number(accounts, c.toAccount)
       IN  IF dest_account.found
           THEN SetCall(p, [c EXCEPT !.to_balance = dest_account.balance], "h_patch_dest")
           ELSE SetCall(p, c, "h_latest")
    /\ UNCHANGED <<routingVars, x, cacheVars, dispatchVars, accounts, transactions, pre, calls, faults>>

\* patch_account_record(tenant_id, dest_account_id, new_dest_balance)
h_patch_dest(p) ==
    /\ pc[p] = "h_patch_dest"
    /\ LET c == call[p]
       IN  /\ accounts' = patch_account_record(accounts, c.toAccount, c.to_balance + c.amount)
           /\ SetCall(p, c, "h_latest")
    /\ UNCHANGED <<routingVars, x, cacheVars, dispatchVars, transactions, pre, calls, faults>>

\* transaction_number = fetch_latest_transaction_number(from_account) + 1
h_latest(p) ==
    /\ pc[p] = "h_latest"
    /\ LET c == call[p]
       IN  \/ /\ SetCall(p, [c EXCEPT !.latest =
                                fetch_latest_transaction_number(transactions, c.fromAccount)],
                         "h_create")
              /\ UNCHANGED faults
           \/ StoreError(p, c, ProcessingErrorText)
    /\ UNCHANGED <<routingVars, x, cacheVars, dispatchVars, accounts, transactions, pre, calls>>

\* create_transaction_record(transaction_data); return "Successfully transferred ..."
h_create(p) ==
    /\ pc[p] = "h_create"
    /\ LET c == call[p]
           data == http_transaction_data(c)
       IN  \/ /\ ~write_conflict(transactions, data)
              /\ transactions' = create_transaction_record(transactions, data)
              /\ Finish(p, c, TransferredText)
              /\ UNCHANGED faults
           \/ /\ write_conflict(transactions, data)
              /\ Finish(p, c, ProcessingErrorText)
              /\ UNCHANGED <<transactions, faults>>
           \/ /\ StoreError(p, c, ProcessingErrorText)
              /\ UNCHANGED transactions
    /\ UNCHANGED <<routingVars, x, cacheVars, dispatchVars, accounts, pre, calls>>

\* the caller has its result and may call again
tool_return(p) ==
    /\ pc[p] = "done"
    /\ SetCall(p, NoCall, "idle")
    /\ pre' = [pre EXCEPT ![p] = NoPre]
    /\ UNCHANGED <<routingVars, x, cacheVars, dispatchVars, accounts, transactions, calls, faults>>

Absent == "<absent>"
None == "None"

NoVia == [active |-> "-", invoked |-> 0, goto |-> "-"]
NoLast == [thread |-> "-", handler |-> "-", state |-> [messages |-> <<>>],
           activeAgent |-> "-", invoked |-> 0, raised |-> FALSE,
           extracted |-> "-", goto |-> "-", update |-> [messages |-> <<>>]]
\* Command(update=response, ...): the response is handed on as it came; the
\* model keeps only this mark of it
TheResponse == [of |-> "response"]

\* no run of the graph is under way
NoGraph == [status |-> "idle", tasks |-> {}, writes |-> {}, interrupted |-> FALSE,
            steps |-> 0, executions |-> 0, ran |-> {}, selected |-> "-"]

NoX == [response |-> [messages |-> <<>>], agent_name |-> "-", result |-> "-"]

\* the MessagesState a handler is called with
InputStates ==
    {[messages |-> <<[type |-> "human", content |-> "hi"]>>],
     [messages |-> <<[type |-> "human", content |-> "hi"],
                     [type |-> "ai", content |-> "How can I help?"]>>]}

\* what the handlers of the graph get back from <agent>.ainvoke
RouteResponses ==
    [messages : SeqsUpTo(Messages, MaxRouteMsgs)] \cup {[output |-> "none"]}

\* ------------------------------------------------------------------------
\* ActiveAgentStore (services.azure_cosmos_db)
\* ------------------------------------------------------------------------
\* chat_container.read_item(...).get('activeAgent', 'unknown'); raises when
\* the item does not exist
read_active_agent(store, key) == store[key]

\* update_chat_container(item): upsert under the item's own tenant/user/id
update_chat_container(store, tenantId, userId, id, activeAgent) ==
    [store EXCEPT ![PartitionKey(tenantId, userId, id)] = activeAgent]

\* patch_active_agent(tenantId, userId, sessionId, activeAgent)
patch_active_agent(store, tenantId, userId, sessionId, activeAgent) ==
    [store EXCEPT ![PartitionKey(tenantId, userId, sessionId)] = activeAgent]

\* ------------------------------------------------------------------------
\* Handlers
\* ------------------------------------------------------------------------
\* try: read_item ... except: activeAgent = None
lookup_active_agent(store, c, thread_id, lookup_raises) ==
    LET key == PartitionKey(c.tenantId, c.userId, thread_id)
    IN  IF lookup_raises \/ read_active_agent(store, key) = Absent
        THEN None
        ELSE read_active_agent(store, key)

\* if activeAgent is None: if local_interactive_mode: update_chat_container
coordinator_store(store, mode, thread_id, activeAgent) ==
    IF activeAgent = None /\ mode
    THEN update_chat_container(store, "cli-test", "cli-test", thread_id, "unknown")
    ELSE store

\* the test without None
is_sticky_without_none(activeAgent) == activeAgent \notin {"unknown", "coordinator_agent"}

\* if activeAgent not in [None, "unknown", "coordinator_agent"]
is_sticky(activeAgent) == activeAgent \notin {None, "unknown", "coordinator_agent"}

\* the commented-out loop guard of lines 158-160: always to human
sticky_command_to_human(state, activeAgent) == [update |-> state, goto |-> "human"]

\* return Command(update=state, goto=activeAgent)
sticky_command(state, activeAgent) == [update |-> state, goto |-> activeAgent]

\* the self-route check of each handler
coordinator_goto(goto) == IF goto = "coordinator_agent" THEN "human" ELSE goto

\* the override of customer_support_agent is commented out
customer_support_goto(goto) == goto

sales_goto(goto) == IF goto = "sales_agent" THEN "human" ELSE goto

transactions_goto(goto) == IF goto = "transactions_agent" THEN "human" ELSE goto

handler_goto(handler, goto) ==
    CASE handler = "coordinator_agent" -> coordinator_goto(goto)
      [] handler = "customer_support_agent" -> customer_support_goto(goto)
      [] handler = "sales_agent" -> sales_goto(goto)
      [] handler = "transactions_agent" -> transactions_goto(goto)

\* a handler that persists the target it routes to
handler_store_persists_goto(store, mode, thread_id, handler, goto) ==
    IF mode
    THEN patch_active_agent(store, "cli-test", "cli-test", thread_id, goto)
    ELSE store

\* if local_interactive_mode: patch_active_agent("cli-test", "cli-test", thread_id, <handler>)
handler_store(store, mode, thread_id, handler, goto) ==
    IF mode
    THEN patch_active_agent(store, "cli-test", "cli-test", thread_id, handler)
    ELSE store

\* the graph runs the node a Command names; a name that is no node fails the run
next_node(goto) == IF goto \in Nodes THEN goto ELSE "failed"

\* a handler that catches the error, invokes the agent a second time and
\* hands the turn to the user
ainvoke_raises_retried(t, handler, state, activeAgent) ==
    [last |-> [thread |-> t, handler |-> handler, state |-> state,
               activeAgent |-> activeAgent, invoked |-> 2, raised |-> TRUE,
               extracted |-> "-", goto |-> "human", update |-> state],
     node |-> "human"]

\* response = await <agent>.ainvoke(state) raises: no try block is around it,
\* the handler returns no Command and the run of the graph fails
ainvoke_raises(t, handler, state, activeAgent) ==
    [last |-> [thread |-> t, handler |-> handler, state |-> state,
               activeAgent |-> activeAgent, invoked |-> 1, raised |-> TRUE,
               extracted |-> "-", goto |-> "-", update |-> state],
     node |-> "failed"]

\* builder.add_edge(START, "coordinator_agent"); a failed run starts over
graph_start(t) ==
    /\ node[t] \in {"START", "failed"}
    /\ node' = [node EXCEPT ![t] = "coordinator_agent"]
    /\ via' = [via EXCEPT ![t] = NoVia]
    /\ UNCHANGED <<chat_container, local_interactive_mode, cfg, last, graph, x, cacheVars, dispatchVars,
                   ledgerVars>>

call_coordinator_agent(t) ==
    /\ node[t] = "coordinator_agent"
    /\ \E state \in InputStates, lookup_raises \in BOOLEAN :
         LET activeAgent == lookup_active_agent(chat_container, cfg[t], t, lookup_raises)
             store == coordinator_store(chat_container, local_interactive_mode, t, activeAgent)
         IN  /\ chat_container' = store
             /\ IF is_sticky(activeAgent)
                THEN LET cmd == sticky_command(state, activeAgent)
                     IN  /\ last' = [thread |-> t, handler |-> "coordinator_agent",
                                     state |-> state, activeAgent |-> activeAgent,
                                     invoked |-> 0, raised |-> FALSE, extracted |-> "-",
                                     goto |-> cmd.goto, update |-> cmd.update]
                         /\ via' = [via EXCEPT ![t] = [active |-> activeAgent,
                                                       invoked |-> 0, goto |-> cmd.goto]]
                         /\ node' = [node EXCEPT ![t] = next_node(cmd.goto)]
                ELSE \/ \* coordinator_agent.ainvoke raises
                        LET r == ainvoke_raises(t, "coordinator_agent", state, activeAgent)
                        IN  /\ last' = r.last
                            /\ via' = [via EXCEPT ![t] = [active |-> activeAgent,
                                                          invoked |-> r.last.invoked,
                                                          goto |-> r.last.goto]]
                            /\ node' = [node EXCEPT ![t] = r.node]
                     \/ \E response \in RouteResponses :
                          LET extracted == extract_goto_from_tool_messages(response, "coordinator_agent")
                              goto == coordinator_goto(extracted)
                          IN  /\ last' = [thread |-> t, handler |-> "coordinator_agent",
                                          state |-> state, activeAgent |-> activeAgent,
                                          invoked |-> 1, raised |-> FALSE,
                                          extracted |-> extracted,
                                          goto |-> goto, update |-> TheResponse]
                              /\ via' = [via EXCEPT ![t] = [active |-> activeAgent,
                                                            invoked |-> 1, goto |-> goto]]
                              /\ node' = [node EXCEPT ![t] = next_node(goto)]
    /\ UNCHANGED <<local_interactive_mode, cfg, graph, x, cacheVars, dispatchVars, ledgerVars>>

\* the body shared by call_customer_support_agent, call_sales_agent and
\* call_transactions_agent
call_agent(t, handler) ==
    /\ node[t] = handler
    /\ \E state \in InputStates :
         \/ \* <agent>.ainvoke raises, after the patch
            /\ chat_container' = handler_store(chat_container, local_interactive_mode,
                                               t, handler, "-")
            /\ last' = ainvoke_raises(t, handler, state, "-").last
            /\ node' = [node EXCEPT ![t] = ainvoke_raises(t, handler, state, "-").node]
         \/ \E response \in RouteResponses :
              LET extracted == extract_goto_from_tool_messages(response, handler)
                  goto == handler_goto(handler, extracted)
              IN  /\ chat_container' = handler_store(chat_container, local_interactive_mode,
                                                     t, handler, goto)
                  /\ last' = [thread |-> t, handler |-> handler, state |-> state,
                              activeAgent |-> "-", invoked |-> 1, raised |-> FALSE,
                              extracted |-> extracted, goto |-> goto, update |-> TheResponse]
                  /\ node' = [node EXCEPT ![t] = next_node(goto)]
    /\ UNCHANGED <<local_interactive_mode, cfg, via, graph, x, cacheVars, dispatchVars, ledgerVars>>

call_customer_support_agent(t) == call_agent(t, "customer_support_agent")

call_sales_agent(t) == call_agent(t, "sales_agent")

call_transactions_agent(t) == call_agent(t, "transactions_agent")

\* interrupt(...); the next user input resumes along human -> coordinator_agent
human_node(t) ==
    /\ node[t] = "human"
    /\ node' = [node EXCEPT ![t] = "coordinator_agent"]
    /\ via' = [via EXCEPT ![t] = NoVia]
    /\ UNCHANGED <<chat_container, local_interactive_mode, cfg, last, graph, x, cacheVars, dispatchVars,
                   ledgerVars>>

\* ------------------------------------------------------------------------
\* Tool dispatchers: registries, requests, responses
\* ------------------------------------------------------------------------
\* mcp_http_server.py:436-448
TOOL_REGISTRY == {"bank_balance", "bank_transfer", "get_transaction_history",
                  "get_offer_information", "create_account", "service_request",
                  "get_branch_location", "calculate_monthly_payment",
                  "transfer_to_sales_agent", "transfer_to_customer_support_agent",
                  "transfer_to_transactions_agent"}

\* simple_mcp_server.py:175-262
TOOLS == {"health_check", "bank_balance", "bank_transfer", "get_transaction_history",
          "calculate_monthly_payment", "get_branch_location",
          "transfer_to_sales_agent", "transfer_to_support_agent"}

\* the tool names call_tool_directly compares with
DirectTools == {"bank_balance", "get_offer_information", "create_account",
                "transfer_to_sales_agent", "transfer_to_customer_support_agent",
                "transfer_to_transactions_agent", "bank_transfer",
                "get_transaction_history", "calculate_monthly_payment",
                "service_request", "get_branch_location", "health_check"}

\* the tool names a caller sends; freeze_account is in no registry
ToolNames == {"bank_balance", "bank_transfer", "transfer_to_sales_agent", "freeze_account"}

\* token_data.roles of the caller
RoleSets == {{"customer"}, {"read_only"}}

\* token_data of the caller, and the tenant_id / user_id of the request body
TokenData == [tenant_id |-> "Contoso", user_id |-> "Mark"]

RequestTenants == {"", "Fabrikam"}

\* account_number of a bank_balance call; the last one is no account number
BalanceNumbers == AccountNumbers \cup {"1234-5678-90"}

\* keys of MOCK_ACCOUNTS, and a number that is not one
MockAccounts == {"12345", "67890"}

MockNumbers == MockAccounts \cup {"99999"}

NoArguments == [none |-> "-"]

\* request.arguments by server and tool
Arguments(server, tool_name) ==
    IF tool_name = "bank_transfer" /\ server = "simple"
    THEN [from_account : MockNumbers, to_account : MockNumbers, amount : Amounts]
    ELSE IF tool_name = "bank_transfer"
    THEN [fromAccount : {"A", "X"}, toAccount : {"B", "X"}, amount : Amounts,
          thread_id : {"", "T1"}]
    ELSE IF tool_name = "bank_balance" /\ server = "simple"
    THEN [account_number : MockNumbers]
    ELSE IF tool_name = "bank_balance"
    THEN [account_number : BalanceNumbers]
    ELSE {NoArguments}

NoToolCall == [server |-> "-", tool_name |-> "-", roles |-> {}, tenant_id |-> "",
               arguments |-> NoArguments, tenantId |-> "-", stage |-> "idle",
               n |-> 0, executed |-> 0, returned |-> "-",
               status |-> "-", success |-> "-", result |-> "-", error |-> "-",
               accounts |-> <<>>, transactions |-> {}, mock |-> <<>>]

\* result texts of the tools and the dispatchers
BalanceText == "The balance for account number is $"  \* mcp_http_server.py:130
BalanceNotFoundText == "Account not found for the specified user"  \* mcp_http_server.py:132
DirectBalanceText == "The balance for your account is $"  \* mcp_server.py:285
DirectBalanceNotFoundText == "Sorry, I couldn't find account"  \* mcp_server.py:287
MockBalanceText == "Account balance: $"  \* simple_mcp_server.py:100
MockNotFoundText == "Account not found"  \* simple_mcp_server.py:99
MockSourceNotFoundText == "Source account not found"  \* simple_mcp_server.py:108
MockDestNotFoundText == "Destination account not found"  \* simple_mcp_server.py:110
MockInsufficientText == "Insufficient funds in account"  \* simple_mcp_server.py:112
MockTransferredText == "Successfully transferred from to"  \* simple_mcp_server.py:118
MockSalesText == "Transferring you to our sales agent."  \* simple_mcp_server.py:166
ToolNotFoundText == "Tool not found"  \* mcp_http_server.py:591
CaughtNotFoundText == "404: Tool not found"  \* simple_mcp_server.py:300
PermissionText == "Insufficient permissions to call tool"  \* mcp_http_server.py:603
RateLimitText == "Rate limit exceeded. Please try again later."  \* mcp_http_server.py:108
AccountFormatText == "Invalid account number format"  \* mcp_http_server.py:620
AmountFormatText == "Invalid amount format"  \* mcp_http_server.py:624
UnknownToolText == "Unknown tool"  \* mcp_server.py:272

\* ------------------------------------------------------------------------
\* security module of the HTTP server
\* ------------------------------------------------------------------------
\* the tools a role may call
check_tool_permission(tool_name, roles) ==
    \/ roles \cap {"admin", "customer", "agent"} # {}
    \/ "read_only" \in roles /\ tool_name = "bank_balance"

\* 10 to 20 digits
validate_account_number(account_number) == account_number # "1234-5678-90"

\* digits with at most two decimals, no sign
validate_amount(amount) == amount >= 0

\* ------------------------------------------------------------------------
\* mcp_http_server.py: call_tool and the tool functions it dispatches to
\* ------------------------------------------------------------------------
\* a dispatcher takes the next call when the one before is answered
NextToolCall ==
    /\ tool_call.stage \in {"idle", "responded"}
    /\ tool_call.n < MaxRequests
    /\ \A p \in Procs : pc[p] = "idle"

NewToolCall(server, tool_name, roles, tenant_id, arguments) ==
    [NoToolCall EXCEPT !.server = server, !.tool_name = tool_name, !.roles = roles,
                       !.tenant_id = tenant_id, !.arguments = arguments,
                       !.stage = "invoke", !.n = tool_call.n + 1,
                       !.accounts = accounts, !.transactions = transactions,
                       !.mock = MOCK_ACCOUNTS]

Respond(tc, status, success, result, error) ==
    tool_call' = [tc EXCEPT !.stage = "responded", !.status = status,
                            !.success = success, !.result = result, !.error = error]

Return(text) ==
    tool_call' = [tool_call EXCEPT !.stage = "returned", !.returned = text,
                                   !.executed = tool_call.executed + 1]

Invoked(server, tool_name) ==
    /\ tool_call.stage = "invoke"
    /\ tool_call.server = server
    /\ tool_call.tool_name = tool_name

\* the tool function has returned to the dispatcher
ToolReturned(server, path) ==
    /\ tool_call.server = server
    /\ \/ tool_call.stage = "returned"
       \/ /\ Invoked(server, "bank_transfer")
          /\ pc["p1"] = "done"
          /\ call["p1"].path = path

ToolResult == IF tool_call.stage = "returned" THEN tool_call.returned ELSE call["p1"].result

\* sanitized_arguments["tenantId"] = request.tenant_id or token_data.tenant_id
secure_tenant(tenant_id) == IF tenant_id # "" THEN tenant_id ELSE TokenData.tenant_id

Rejection(status, success, error) == [status |-> status, success |-> success, error |-> error]

Passed == Rejection("-", "-", "-")

\* a validation that looks at account_number only
validate_arguments_account_only(arguments) ==
    IF "account_number" \in DOMAIN arguments
       /\ ~validate_account_number(arguments.account_number)
    THEN Rejection("200", "false", AccountFormatText)
    ELSE Passed

\* the argument validation inside the try block: ValueError -> success=False
validate_arguments(arguments) ==
    IF "account_number" \in DOMAIN arguments
       /\ ~validate_account_number(arguments.account_number)
    THEN Rejection("200", "false", AccountFormatText)
    ELSE IF "amount" \in DOMAIN arguments /\ ~validate_amount(arguments.amount)
    THEN Rejection("200", "false", AmountFormatText)
    ELSE Passed

\* checks that let every role call every registered tool
call_tool_checks_without_permission(tool_name, roles, arguments, allowed) ==
    IF ~allowed
    THEN Rejection("429", "-", RateLimitText)
    ELSE IF tool_name \notin TOOL_REGISTRY
    THEN Rejection("404", "-", ToolNotFoundText)
    ELSE validate_arguments(arguments)

\* check_rate_limit, the registry check, the permission check and the
\* validation of the arguments, in the order of call_tool
call_tool_checks(tool_name, roles, arguments, allowed) ==
    IF ~allowed
    THEN Rejection("429", "-", RateLimitText)
    ELSE IF tool_name \notin TOOL_REGISTRY
    THEN Rejection("404", "-", ToolNotFoundText)
    ELSE IF ~check_tool_permission(tool_name, roles)
    THEN Rejection("403", "-", PermissionText)
    ELSE validate_arguments(arguments)

\* the handler up to the call of the tool function; thread_id of the arguments
\* stands for request.thread_id too
call_tool ==
    /\ NextToolCall
    /\ \E tool_name \in ToolNames, roles \in RoleSets, tenant_id \in RequestTenants,
          allowed \in BOOLEAN :
         \E arguments \in Arguments("http", tool_name) :
            LET tc == NewToolCall("http", tool_name, roles, tenant_id, arguments)
                rejected == call_tool_checks(tool_name, roles, arguments, allowed)
            IN  IF rejected # Passed
                THEN Respond(tc, rejected.status, rejected.success, "-", rejected.error)
                ELSE tool_call' = [tc EXCEPT !.tenantId = secure_tenant(tenant_id)]
    /\ UNCHANGED <<routingVars, x, cacheVars, ledgerVars, MOCK_ACCOUNTS>>

\* mcp_http_server.py:116-134
call_bank_balance ==
    /\ Invoked("http", "bank_balance")
    /\ LET account == fetch_account_by_number(accounts, tool_call.arguments.account_number)
       IN  \/ /\ Return(IF account.found THEN BalanceText ELSE BalanceNotFoundText)
              /\ UNCHANGED faults
           \/ /\ faults > 0
              /\ faults' = faults - 1
              /\ Return("Error retrieving balance")
    /\ UNCHANGED <<routingVars, x, cacheVars, accounts, transactions, pc, call, pre, calls, MOCK_ACCOUNTS>>

\* mcp_http_server.py:420-423
call_transfer_to_sales_agent ==
    /\ Invoked("http", "transfer_to_sales_agent")
    /\ Return(GotoContent("sales_agent"))
    /\ UNCHANGED <<routingVars, x, cacheVars, ledgerVars, MOCK_ACCOUNTS>>

\* result = await tool_function(sanitized_arguments), for bank_transfer
call_tool_bank_transfer ==
    /\ Invoked("http", "bank_transfer")
    /\ call_bank_transfer("p1")
    /\ call'["p1"].fromAccount = tool_call.arguments.fromAccount
    /\ call'["p1"].toAccount = tool_call.arguments.toAccount
    /\ call'["p1"].amount = tool_call.arguments.amount
    /\ call'["p1"].thread_id = tool_call.arguments.thread_id

\* a dispatcher that reports every tool result but a transfer as a failure
call_tool_response_typed ==
    /\ ToolReturned("http", "http")
    /\ Respond([tool_call EXCEPT !.executed = 1], "200",
               IF ToolResult = TransferredText THEN "true" ELSE "false", ToolResult, "-")
    /\ UNCHANGED <<routingVars, x, cacheVars, ledgerVars, MOCK_ACCOUNTS>>

\* return ToolCallResponse(success=True, result=result, ...)
call_tool_response ==
    /\ ToolReturned("http", "http")
    /\ Respond([tool_call EXCEPT !.executed = 1], "200", "true", ToolResult, "-")
    /\ UNCHANGED <<routingVars, x, cacheVars, ledgerVars, MOCK_ACCOUNTS>>

\* ------------------------------------------------------------------------
\* mcp_server.py: call_tool_directly and the functions it dispatches to
\* ------------------------------------------------------------------------
call_tool_directly ==
    /\ NextToolCall
    /\ \E tool_name \in ToolNames :
         \E arguments \in Arguments("direct", tool_name) :
            LET tc == NewToolCall("direct", tool_name, {}, "", arguments)
            IN  IF tool_name \in DirectTools
                THEN tool_call' = [tc EXCEPT !.tenantId = "Contoso"]
                ELSE Respond(tc, "raised", "-", "-", UnknownToolText)
    /\ UNCHANGED <<routingVars, x, cacheVars, ledgerVars, MOCK_ACCOUNTS>>

\* mcp_server.py:274-287
_call_bank_balance_direct ==
    /\ Invoked("direct", "bank_balance")
    /\ LET account_data ==
               fetch_account_by_number(accounts, tool_call.arguments.account_number)
       IN  Return(IF account_data.found THEN DirectBalanceText
                  ELSE DirectBalanceNotFoundText)
    /\ UNCHANGED <<routingVars, x, cacheVars, ledgerVars, MOCK_ACCOUNTS>>

\* mcp_server.py:323-328
_call_transfer_to_sales_agent_direct ==
    /\ Invoked("direct", "transfer_to_sales_agent")
    /\ Return("{\"goto\": \"sales_agent\", \"status\": \"success\"}")
    /\ UNCHANGED <<routingVars, x, cacheVars, ledgerVars, MOCK_ACCOUNTS>>

\* return await self._call_bank_transfer_direct(arguments)
call_tool_directly_bank_transfer ==
    /\ Invoked("direct", "bank_transfer")
    /\ _call_bank_transfer_direct("p1")
    /\ call'["p1"].fromAccount = tool_call.arguments.fromAccount
    /\ call'["p1"].toAccount = tool_call.arguments.toAccount
    /\ call'["p1"].amount = tool_call.arguments.amount

\* the value of the tool function is the value of call_tool_directly
call_tool_directly_return ==
    /\ ToolReturned("direct", "direct")
    /\ Respond([tool_call EXCEPT !.executed = 1], "returned", "-", ToolResult, "-")
    /\ UNCHANGED <<routingVars, x, cacheVars, ledgerVars, MOCK_ACCOUNTS>>

\* ------------------------------------------------------------------------
\* simple_mcp_server.py: call_tool and its tools on MOCK_ACCOUNTS
\* ------------------------------------------------------------------------
\* simple_mcp_server.py:95-100
bank_balance(mock, account_number) ==
    IF account_number \notin DOMAIN mock THEN MockNotFoundText ELSE MockBalanceText

\* simple_mcp_server.py:102-118
bank_transfer(mock, from_account, to_account, amount) ==
    IF from_account \notin DOMAIN mock
    THEN [mock |-> mock, text |-> MockSourceNotFoundText]
    ELSE IF to_account \notin DOMAIN mock
    THEN [mock |-> mock, text |-> MockDestNotFoundText]
    ELSE IF mock[from_account] < amount
    THEN [mock |-> mock, text |-> MockInsufficientText]
    ELSE LET debited == [mock EXCEPT ![from_account] = @ - amount]
         IN  [mock |-> [debited EXCEPT ![to_account] = @ + amount],
              text |-> MockTransferredText]

\* the whole handler: the tools are synchronous, and the HTTPException of an
\* unknown tool is raised inside the try block that catches Exception
simple_call_tool ==
    /\ NextToolCall
    /\ \E tool_name \in ToolNames :
         \E arguments \in Arguments("simple", tool_name) :
            LET tc == [NewToolCall("simple", tool_name, {}, "", arguments)
                          EXCEPT !.executed = 1]
            IN  IF tool_name \notin TOOLS
                THEN /\ Respond([tc EXCEPT !.executed = 0], "200", "false", "-",
                                CaughtNotFoundText)
                     /\ UNCHANGED MOCK_ACCOUNTS
                ELSE IF tool_name = "bank_balance"
                THEN /\ Respond(tc, "200", "true",
                                bank_balance(MOCK_ACCOUNTS, arguments.account_number), "-")
                     /\ UNCHANGED MOCK_ACCOUNTS
                ELSE IF tool_name = "bank_transfer"
                THEN LET out == bank_transfer(MOCK_ACCOUNTS, arguments.from_account,
                                              arguments.to_account, arguments.amount)
                     IN  /\ Respond(tc, "200", "true", out.text, "-")
                         /\ MOCK_ACCOUNTS' = out.mock
                ELSE /\ Respond(tc, "200", "true", MockSalesText, "-")
                     /\ UNCHANGED MOCK_ACCOUNTS
    /\ UNCHANGED <<routingVars, x, cacheVars, ledgerVars>>

\* the caller of an answered bank_transfer call is free again
tool_call_done ==
    /\ tool_call.stage = "responded"
    /\ tool_return("p1")

\* no SharedMCPServerInstance has been constructed
NoInstance == [id |-> None, azure_services |-> None]

\* the coroutines and tools that ask for the cached objects
Callers == {"k1", "k2", "k3"}

\* calls of the two cache functions in one run
MaxCacheCalls == 4

NoGot == [instance |-> NoInstance, services |-> None, raised |-> FALSE]

\* the module has just been imported: nothing is cached
CacheIdle ==
    /\ cached_server_instance = NoInstance
    /\ cached_azure_services = None
    /\ azure_services_cache = None
    /\ made = [instances |-> 0, tables |-> 0, calls |-> 0]
    /\ got = [c \in Callers |-> NoGot]

\* no tool call is under way
DispatchIdle ==
    /\ tool_call = NoToolCall
    /\ MOCK_ACCOUNTS = [a \in MockAccounts |-> 0]

\* no transfer is under way and none will begin
LedgerIdle ==
    /\ accounts = [a \in Accounts |-> 0]
    /\ transactions = {}
    /\ pc = [p \in Procs |-> "idle"]
    /\ call = [p \in Procs |-> NoCall]
    /\ pre = [p \in Procs |-> NoPre]
    /\ calls = MaxCalls
    /\ faults = 0

\* no turn is under way
RoutingIdle ==
    /\ chat_container = [k \in Keys |-> Absent]
    /\ local_interactive_mode = FALSE
    /\ cfg = [t \in Threads |-> [tenantId |-> "Contoso", userId |-> "Mark"]]
    /\ node = [t \in Threads |-> "START"]
    /\ via = [t \in Threads |-> NoVia]
    /\ last = NoLast
    /\ graph = [t \in Threads |-> NoGraph]

\* a thread's record is created outside this code, with activeAgent "unknown"
RoutingInit ==
    /\ LedgerIdle
    /\ chat_container \in [Keys -> {Absent, "unknown"}]
    /\ local_interactive_mode \in BOOLEAN
    /\ cfg \in [Threads -> Configs]
    /\ node = [t \in Threads |-> "START"]
    /\ via = [t \in Threads |-> NoVia]
    /\ last = NoLast
    /\ graph = [t \in Threads |-> NoGraph]
    /\ x = NoX
    /\ CacheIdle
    /\ DispatchIdle

RoutingNext ==
    \E t \in Threads :
        \/ graph_start(t)
        \/ call_coordinator_agent(t)
        \/ call_customer_support_agent(t)
        \/ call_sales_agent(t)
        \/ call_transactions_agent(t)
        \/ human_node(t)

RoutingSpec == RoutingInit /\ [][RoutingNext]_vars

\* ------------------------------------------------------------------------
\* The compiled graph: a run proceeds in supersteps; the nodes scheduled in a
\* superstep all execute, and the nodes of the next superstep are the targets
\* of the static edges of the nodes that executed together with the goto of
\* each Command they returned
\* ------------------------------------------------------------------------
MaxSteps == 5

\* builder.add_edge(...)
Edges ==
    {<<"START", "coordinator_agent">>, <<"human", "coordinator_agent">>}
    \cup {<<"coordinator_agent", agent>> : agent \in agents \ {"coordinator_agent"}}
    \cup {<<agent, "human">> : agent \in agents \ {"coordinator_agent"}}

\* a graph whose specialists have no edge to human
edge_targets_without_human(n) ==
    {e[2] : e \in {d \in Edges : d[1] = n /\ d[2] # "human"}}

\* the nodes the static edges of n lead to
edge_targets(n) == {e[2] : e \in {d \in Edges : d[1] = n}}

\* the node a Command adds to the next superstep; a goto that names no node
\* adds none
goto_targets(goto) == IF next_node(goto) = "failed" THEN {} ELSE {goto}

\* a node executed and returned Command(goto=goto)
task_done(g, n, goto) ==
    [g EXCEPT !.tasks = @ \ {n},
              !.writes = @ \cup edge_targets(n) \cup goto_targets(goto),
              !.executions = @ + 1,
              !.ran = @ \cup {n},
              !.selected = IF n = "coordinator_agent" THEN goto ELSE @]

\* a node raised: the run of the graph fails
task_raised(g, n) ==
    [g EXCEPT !.status = "failed", !.tasks = {}, !.writes = {},
              !.executions = @ + 1, !.ran = @ \cup {n}]

\* the responses a task of the graph gets back from <agent>.ainvoke: no message,
\* one message of any kind, or no messages entry at all
TaskResponses ==
    {[messages |-> <<>>], [output |-> "none"]}
    \cup {[messages |-> <<m>>] : m \in Messages}

\* what extract_goto_from_tool_messages makes of them
Extracted(agent_name) ==
    {extract_goto_from_tool_messages(response, agent_name) : response \in TaskResponses}

CoordinatorExtracted == Extracted("coordinator_agent")

AgentExtracted == [handler \in agents |-> Extracted(handler)]

\* graph.stream(input_message, config=thread_config, ...): a turn begins at START
graph_stream(t) ==
    /\ graph[t].status # "running"
    /\ graph' = [graph EXCEPT ![t] = [NoGraph EXCEPT !.status = "running",
                                                     !.tasks = edge_targets("START"),
                                                     !.steps = 1]]
    /\ UNCHANGED <<chat_container, local_interactive_mode, cfg, node, via, last, x, cacheVars,
                   dispatchVars, ledgerVars>>

\* call_coordinator_agent as a task of the superstep
superstep_coordinator(t) ==
    /\ graph[t].status = "running"
    /\ "coordinator_agent" \in graph[t].tasks
    /\ \E state \in InputStates, lookup_raises \in BOOLEAN :
         LET activeAgent == lookup_active_agent(chat_container, cfg[t], t, lookup_raises)
             store == coordinator_store(chat_container, local_interactive_mode, t, activeAgent)
         IN  /\ chat_container' = store
             /\ IF is_sticky(activeAgent)
                THEN LET cmd == sticky_command(state, activeAgent)
                     IN  /\ last' = [thread |-> t, handler |-> "coordinator_agent",
                                     state |-> state, activeAgent |-> activeAgent,
                                     invoked |-> 0, raised |-> FALSE, extracted |-> "-",
                                     goto |-> cmd.goto, update |-> cmd.update]
                         /\ graph' = [graph EXCEPT ![t] =
                                         task_done(@, "coordinator_agent", cmd.goto)]
                ELSE \/ /\ last' = ainvoke_raises(t, "coordinator_agent", state,
                                                  activeAgent).last
                        /\ graph' = [graph EXCEPT ![t] = task_raised(@, "coordinator_agent")]
                     \/ \E extracted \in CoordinatorExtracted :
                          LET goto == coordinator_goto(extracted)
                          IN  /\ last' = [thread |-> t, handler |-> "coordinator_agent",
                                          state |-> state, activeAgent |-> activeAgent,
                                          invoked |-> 1, raised |-> FALSE,
                                          extracted |-> extracted,
                                          goto |-> goto, update |-> TheResponse]
                              /\ graph' = [graph EXCEPT ![t] =
                                              task_done(@, "coordinator_agent", goto)]
    /\ UNCHANGED <<local_interactive_mode, cfg, node, via, x, cacheVars, dispatchVars, ledgerVars>>

\* a specialist handler as a task of the superstep
superstep_agent(t, handler) ==
    /\ graph[t].status = "running"
    /\ handler \in graph[t].tasks
    /\ \E state \in InputStates :
         \/ /\ chat_container' = handler_store(chat_container, local_interactive_mode,
                                               t, handler, "-")
            /\ last' = ainvoke_raises(t, handler, state, "-").last
            /\ graph' = [graph EXCEPT ![t] = task_raised(@, handler)]
         \/ \E extracted \in AgentExtracted[handler] :
              LET goto == handler_goto(handler, extracted)
              IN  /\ chat_container' = handler_store(chat_container, local_interactive_mode,
                                                     t, handler, goto)
                  /\ last' = [thread |-> t, handler |-> handler, state |-> state,
                              activeAgent |-> "-", invoked |-> 1, raised |-> FALSE,
                              extracted |-> extracted, goto |-> goto, update |-> TheResponse]
                  /\ graph' = [graph EXCEPT ![t] = task_done(@, handler, goto)]
    /\ UNCHANGED <<local_interactive_mode, cfg, node, via, x, cacheVars, dispatchVars, ledgerVars>>

superstep_customer_support_agent(t) == superstep_agent(t, "customer_support_agent")

superstep_sales_agent(t) == superstep_agent(t, "sales_agent")

superstep_transactions_agent(t) == superstep_agent(t, "transactions_agent")

\* human_node as a task of the superstep: interrupt(...) suspends the run once
\* the superstep is over
superstep_human(t) ==
    /\ graph[t].status = "running"
    /\ "human" \in graph[t].tasks
    /\ graph' = [graph EXCEPT ![t].tasks = @ \ {"human"}, ![t].interrupted = TRUE]
    /\ UNCHANGED <<chat_container, local_interactive_mode, cfg, node, via, last, x, cacheVars,
                   dispatchVars, ledgerVars>>

\* every task of the superstep has executed
superstep_end(t) ==
    /\ graph[t].status = "running"
    /\ graph[t].tasks = {}
    /\ IF graph[t].interrupted
       THEN graph' = [graph EXCEPT ![t].status = "suspended", ![t].writes = {}]
       ELSE IF graph[t].writes = {}
       THEN graph' = [graph EXCEPT ![t].status = "ended"]
       ELSE /\ graph[t].steps < MaxSteps
            /\ graph' = [graph EXCEPT ![t].tasks = graph[t].writes, ![t].writes = {},
                                      ![t].steps = @ + 1]
    /\ UNCHANGED <<chat_container, local_interactive_mode, cfg, node, via, last, x, cacheVars,
                   dispatchVars, ledgerVars>>

GraphInit ==
    /\ LedgerIdle
    /\ chat_container = [k \in Keys |-> Absent]
    /\ local_interactive_mode \in BOOLEAN
    /\ cfg \in [Threads -> Configs]
    /\ node = [t \in Threads |-> "START"]
    /\ via = [t \in Threads |-> NoVia]
    /\ last = NoLast
    /\ graph = [t \in Threads |-> NoGraph]
    /\ x = NoX
    /\ CacheIdle
    /\ DispatchIdle

\* the steps of a run that is under way
GraphRun(t) ==
    \/ superstep_coordinator(t)
    \/ superstep_customer_support_agent(t)
    \/ superstep_sales_agent(t)
    \/ superstep_transactions_agent(t)
    \/ superstep_human(t)
    \/ superstep_end(t)

GraphNext ==
    \E t \in Threads :
        \/ graph_stream(t)
        \/ superstep_coordinator(t)
        \/ superstep_customer_support_agent(t)
        \/ superstep_sales_agent(t)
        \/ superstep_transactions_agent(t)
        \/ superstep_human(t)
        \/ superstep_end(t)

\* a run that can take a step eventually takes it
GraphSpec ==
    /\ GraphInit
    /\ [][GraphNext]_vars
    /\ \A t \in Threads : WF_vars(GraphRun(t))

\* ------------------------------------------------------------------------
\* The handoff extraction on its own
\* ------------------------------------------------------------------------
ExtractInit ==
    /\ x \in [response : Responses, agent_name : {"coordinator_agent"}, result : {"-"}]
    /\ CacheIdle
    /\ DispatchIdle
    /\ RoutingIdle
    /\ LedgerIdle

ExtractGoto ==
    /\ x.result = "-"
    /\ x' = [x EXCEPT !.result = extract_goto_from_tool_messages(x.response, x.agent_name)]
    /\ UNCHANGED <<routingVars, ledgerVars, dispatchVars, cacheVars>>

ExtractNext == ExtractGoto

ExtractSpec == ExtractInit /\ [][ExtractNext]_vars

\* ------------------------------------------------------------------------
\* Transfers one at a time
\* ------------------------------------------------------------------------
LedgerInit ==
    /\ RoutingIdle
    /\ x = NoX
    /\ CacheIdle
    /\ DispatchIdle
    /\ accounts \in [Accounts -> 0..MaxBalance]
    /\ transactions = {}
    /\ pc = [p \in Procs |-> "idle"]
    /\ call = [p \in Procs |-> NoCall]
    /\ pre = [p \in Procs |-> NoPre]
    /\ calls = 0
    /\ faults = 0

TransferStep(p) ==
    \/ transfer(p)
    \/ bt_fetch_account(p)
    \/ bt_fetch_latest(p)
    \/ bt_create(p)
    \/ bt_patch(p)
    \/ _call_bank_transfer_direct(p)
    \/ d_fetch_from(p)
    \/ d_fetch_to(p)
    \/ d_latest_debit(p)
    \/ d_create_debit(p)
    \/ d_patch_from(p)
    \/ d_latest_credit(p)
    \/ d_create_credit(p)
    \/ d_patch_to(p)
    \/ call_bank_transfer(p)
    \/ h_fetch_source(p)
    \/ h_patch_source(p)
    \/ h_fetch_dest(p)
    \/ h_patch_dest(p)
    \/ h_latest(p)
    \/ h_create(p)
    \/ tool_return(p)

LedgerNext == TransferStep("p1")

LedgerSpec == LedgerInit /\ [][LedgerNext]_vars

\* ------------------------------------------------------------------------
\* The ledger tool, one transfer, with a store whose calls may raise
\* ------------------------------------------------------------------------
FaultInit ==
    /\ RoutingIdle
    /\ x = NoX
    /\ CacheIdle
    /\ DispatchIdle
    /\ accounts \in [Accounts -> 0..MaxBalance]
    /\ transactions = {}
    /\ pc = [p \in Procs |-> "idle"]
    /\ call = [p \in Procs |-> NoCall]
    /\ pre = [p \in Procs |-> NoPre]
    /\ calls = MaxCalls - 1
    /\ faults \in 0..MaxFaults

FaultNext ==
    \E p \in {"p1"} :
        \/ transfer(p)
        \/ bt_fetch_account(p)
        \/ bt_fetch_latest(p)
        \/ bt_create(p)
        \/ bt_patch(p)
        \/ tool_return(p)

FaultSpec == FaultInit /\ [][FaultNext]_vars

\* ------------------------------------------------------------------------
\* Two callers whose transfers interleave step by step; each calls once
\* ------------------------------------------------------------------------
ConcInit ==
    /\ RoutingIdle
    /\ x = NoX
    /\ CacheIdle
    /\ DispatchIdle
    /\ accounts = [a \in Accounts |-> MaxBalance]
    /\ transactions = {}
    /\ pc = [p \in Procs |-> "idle"]
    /\ call = [p \in Procs |-> NoCall]
    /\ pre = [p \in Procs |-> NoPre]
    /\ calls = MaxCalls - Cardinality(Procs)
    /\ faults = 0

ConcNext == \E p \in Procs : TransferStep(p)

ConcSpec == ConcInit /\ [][ConcNext]_vars

\* a call of the ledger tool that moves a positive amount between accounts
\* that exist
LegsCall(p) ==
    /\ transfer(p)
    /\ call'[p].amount > 0
    /\ call'[p].fromAccount \in Accounts
    /\ call'[p].toAccount \in Accounts

\* two callers of the ledger tool; every caller that can step eventually does
LegsNext ==
    \E p \in Procs :
        \/ LegsCall(p)
        \/ bt_fetch_account(p)
        \/ bt_fetch_latest(p)
        \/ bt_create(p)
        \/ bt_patch(p)
        \/ tool_return(p)

LegsSpec ==
    /\ ConcInit
    /\ [][LegsNext]_vars
    /\ \A p \in Procs :
          WF_vars(bt_fetch_account(p) \/ bt_fetch_latest(p) \/ bt_create(p) \/ bt_patch(p))

\* ------------------------------------------------------------------------
\* The three dispatchers, one tool call at a time
\* ------------------------------------------------------------------------
DispatchInit ==
    /\ RoutingIdle
    /\ x = NoX
    /\ CacheIdle
    /\ accounts = [a \in Accounts |-> 1]
    /\ transactions = {}
    /\ pc = [p \in Procs |-> "idle"]
    /\ call = [p \in Procs |-> NoCall]
    /\ pre = [p \in Procs |-> NoPre]
    /\ calls = MaxCalls - MaxRequests
    /\ faults = 0
    /\ tool_call = NoToolCall
    /\ MOCK_ACCOUNTS = [a \in MockAccounts |-> 1]

DispatchNext ==
    \/ call_tool
    \/ call_bank_balance
    \/ call_transfer_to_sales_agent
    \/ call_tool_bank_transfer
    \/ h_fetch_source("p1")
    \/ h_patch_source("p1")
    \/ h_fetch_dest("p1")
    \/ h_patch_dest("p1")
    \/ h_latest("p1")
    \/ h_create("p1")
    \/ call_tool_response
    \/ call_tool_directly
    \/ _call_bank_balance_direct
    \/ _call_transfer_to_sales_agent_direct
    \/ call_tool_directly_bank_transfer
    \/ d_fetch_from("p1")
    \/ d_fetch_to("p1")
    \/ d_latest_debit("p1")
    \/ d_create_debit("p1")
    \/ d_patch_from("p1")
    \/ d_latest_credit("p1")
    \/ d_create_credit("p1")
    \/ d_patch_to("p1")
    \/ call_tool_directly_return
    \/ simple_call_tool
    \/ tool_call_done

DispatchSpec == DispatchInit /\ [][DispatchNext]_vars

\* ------------------------------------------------------------------------
\* Routing claims
\* ------------------------------------------------------------------------
LookupKey(t) == PartitionKey(cfg[t].tenantId, cfg[t].userId, t)

Returned == last.handler \in agents /\ ~last.raised

\* C1: the goto of the Command a handler returns is never the handler itself
C1_NeverRoutesToItself == Returned => last.goto # last.handler

\* C2: a persisted concrete agent other than coordinator_agent and unknown makes
\* call_coordinator_agent return goto = that agent, with no ainvoke and the
\* state passed through
C2_StickyFastPath ==
    (last.handler = "coordinator_agent"
        /\ last.activeAgent \notin {None, "unknown", "coordinator_agent"})
    => /\ last.goto = last.activeAgent
       /\ last.invoked = 0
       /\ last.update = last.state

C2_Witness ==
    /\ last.handler = "coordinator_agent"
    /\ last.activeAgent = "sales_agent"
    /\ last.goto = "sales_agent"
    /\ node["T1"] = "sales_agent"

\* C3: in the interactive mode (the one mode in which the handlers persist),
\* after the coordinator routed an unknown thread to transactions_agent and that
\* handler ran and returned, transactions_agent is persisted under the key the
\* lookup of the thread reads
C3_HandoffPersistedUnderLookupKey ==
    \A t \in Threads :
        (local_interactive_mode
            /\ via[t].active \in {"unknown", None}
            /\ via[t].invoked = 1
            /\ via[t].goto = "transactions_agent"
            /\ last.thread = t
            /\ last.handler = "transactions_agent"
            /\ ~last.raised)
        => chat_container[LookupKey(t)] = "transactions_agent"

\* C4: the active-agent store never holds 'human'
C4_HumanNeverPersisted == \A k \in Keys : chat_container[k] # "human"

C4_Witness ==
    /\ local_interactive_mode
    /\ last.handler = "sales_agent"
    /\ last.extracted = "human"
    /\ last.goto = "human"
    /\ chat_container[PartitionKey("cli-test", "cli-test", "T1")] = "sales_agent"

\* C5: a lookup that raises or finds no record leads to the coordinator being
\* invoked and the turn being routed on its response, as for 'unknown'
C5_LookupFailureIsUnknown ==
    (last.handler = "coordinator_agent" /\ last.activeAgent = None)
    => /\ last.invoked = 1
       /\ \/ last.raised
          \/ last.goto = IF last.extracted = "coordinator_agent"
                         THEN "human" ELSE last.extracted

C5_Witness ==
    /\ last.handler = "coordinator_agent"
    /\ last.activeAgent = None
    /\ last.invoked = 1
    /\ ~last.raised
    /\ last.goto = "transactions_agent"

\* the handoff payloads: content that is a JSON object with a goto field
HandoffTarget(content) ==
    CASE content = "{\"goto\": \"coordinator_agent\"}" -> "coordinator_agent"
      [] content = "{\"goto\": \"customer_support_agent\"}" -> "customer_support_agent"
      [] content = "{\"goto\": \"sales_agent\"}" -> "sales_agent"
      [] content = "{\"goto\": \"transactions_agent\"}" -> "transactions_agent"
      [] content = "{\"goto\": \"human\"}" -> "human"
      [] content = "{\"goto\": \"billing_agent\"}" -> "billing_agent"
      [] content = "{\"goto\": \"sales_agent\", \"status\": \"success\"}" -> "sales_agent"
      [] OTHER -> "<no handoff>"

HandoffIndexes(messages) ==
    {i \in 1..Len(messages) :
        messages[i].type = "tool" /\ HandoffTarget(messages[i].content) # "<no handoff>"}

FirstHandoff(messages) ==
    CHOOSE i \in HandoffIndexes(messages) : \A j \in HandoffIndexes(messages) : i <= j

\* C6: the result is the goto of the first tool message that carries one
C6_FirstMatchWins ==
    (x.result # "-" /\ HandoffIndexes(ResponseMessages(x.response)) # {})
    => x.result = HandoffTarget(
                     ResponseMessages(x.response)[FirstHandoff(ResponseMessages(x.response))].content)

C6_Witness ==
    /\ x.result = "sales_agent"
    /\ Len(ResponseMessages(x.response)) = 3
    /\ ResponseMessages(x.response)[1] =
           [type |-> "tool", content |-> "Successfully transferred to sales agent"]
    /\ ResponseMessages(x.response)[2] =
           [type |-> "tool", content |-> "{\"goto\": \"sales_agent\"}"]
    /\ ResponseMessages(x.response)[3] =
           [type |-> "tool", content |-> "{\"goto\": \"transactions_agent\"}"]

\* C7: without a handoff payload the result is 'human', and no error leaves
\* the extraction
C7_DefaultsToHuman ==
    x.result # "-"
    => /\ x.result # Raised
       /\ HandoffIndexes(ResponseMessages(x.response)) = {} => x.result = "human"

C7_Witness ==
    /\ x.result = "human"
    /\ Len(ResponseMessages(x.response)) = 3
    /\ ResponseMessages(x.response)[1] = [type |-> "tool", content |-> "\"goto\""]
    /\ ResponseMessages(x.response)[2] =
           [type |-> "tool", content |-> "Successfully transferred to sales agent"]
    /\ ResponseMessages(x.response)[3] =
           [type |-> "tool", content |-> "{\"status\": \"success\"}"]

\* C8: the goto of the Command a handler returns is one of the five nodes
C8_TargetIsANode == Returned => last.goto \in Nodes

\* ------------------------------------------------------------------------
\* Ledger claims
\* ------------------------------------------------------------------------
NewTransactions(p) == transactions \ pre[p].transactions

\* a finished transfer between two different existing accounts whose arguments
\* pass the parameter checks of its path
FinishedTransfer(p) ==
    /\ pc[p] = "done"
    /\ call[p].fromAccount \in Accounts
    /\ call[p].toAccount \in Accounts
    /\ call[p].fromAccount # call[p].toAccount
    /\ call[p].path = "http" => call[p].thread_id # ""

IsLeg(r, account, debit, credit) ==
    /\ r.accountId = account
    /\ "debitAmount" \in DOMAIN r
    /\ "creditAmount" \in DOMAIN r
    /\ "accountBalance" \in DOMAIN r
    /\ r.debitAmount = debit
    /\ r.creditAmount = credit
    /\ r.accountBalance = accounts[account]

TransferPostState(p) ==
    LET c == call[p]
    IN  /\ accounts[c.fromAccount] = pre[p].accounts[c.fromAccount] - c.amount
        /\ accounts[c.toAccount] = pre[p].accounts[c.toAccount] + c.amount
        /\ Cardinality(NewTransactions(p)) = 2
        /\ \E d \in NewTransactions(p) : IsLeg(d, c.fromAccount, c.amount, 0)
        /\ \E r \in NewTransactions(p) : IsLeg(r, c.toAccount, 0, c.amount)

\* C9: a transfer with amt > 0 and a sufficient source balance ends with the
\* source decreased and the destination increased by amt and exactly two new
\* Transaction records, a debit leg and a credit leg, whose accountBalance are
\* the stored balances
C9_TransferMovesMoneyAndRecordsTwoLegs ==
    \A p \in Procs :
        (FinishedTransfer(p)
            /\ call[p].amount > 0
            /\ pre[p].accounts[call[p].fromAccount] >= call[p].amount)
        => TransferPostState(p)

\* C10: a transfer with A.balance < amt writes no Transaction record, changes
\* no balance and reports insufficient funds, on every path
C10_InsufficientFundsChangesNothing ==
    \A p \in Procs :
        (FinishedTransfer(p)
            /\ pre[p].accounts[call[p].fromAccount] < call[p].amount)
        => /\ NewTransactions(p) = {}
           /\ accounts = pre[p].accounts
           /\ call[p].result = InsufficientText

\* a finished call of a transfer path whose arguments pass the presence checks
FinishedCall(p) ==
    /\ pc[p] = "done"
    /\ call[p].path = "http" => call[p].thread_id # ""

\* C11: a transfer whose source account does not exist writes no Transaction
\* record, changes no balance and ends with a not-found result
C11_MissingSourceChangesNothing ==
    \A p \in Procs :
        (FinishedCall(p)
            /\ call[p].amount > 0
            /\ call[p].fromAccount \notin Accounts
            /\ call[p].toAccount \in Accounts)
        => /\ NewTransactions(p) = {}
           /\ accounts = pre[p].accounts
           /\ call[p].result \in {NotFoundText, SourceNotFoundText, DebitFailedText}

\* C12: a transfer whose destination account does not exist, after the source
\* was debited, ends with a failure result and the debit leg stays in place
C12_MissingDestinationFailsTransfer ==
    \A p \in Procs :
        (FinishedCall(p)
            /\ call[p].amount > 0
            /\ call[p].fromAccount \in Accounts
            /\ call[p].toAccount \notin Accounts
            /\ accounts[call[p].fromAccount]
                   = pre[p].accounts[call[p].fromAccount] - call[p].amount)
        => /\ call[p].result # TransferredText
           /\ \E r \in NewTransactions(p) : r.accountId = call[p].fromAccount

\* C13: a transfer with amount <= 0 is rejected as an invalid argument: no
\* Transaction record is written and no balance changes, on every path
C13_NonPositiveAmountRejected ==
    \A p \in Procs :
        (FinishedCall(p)
            /\ call[p].amount <= 0
            /\ call[p].fromAccount \in Accounts
            /\ call[p].toAccount \in Accounts)
        => /\ NewTransactions(p) = {}
           /\ accounts = pre[p].accounts
           /\ call[p].result \in {AmountText, MissingParamsText}

\* C14: a leg of bank_transaction makes at most 5 attempts, each of them reads
\* the latest transaction number again before it writes, and a leg whose 5
\* attempts all failed returns the failure result without patching the balance
C14_AtMostFiveAttempts ==
    /\ [](\A p \in Procs :
            call[p].path = "transfer"
            => /\ call[p].attempt < max_attempts
               /\ call[p].result \in {DebitFailedText, CreditFailedText}
                  => /\ call[p].attempt = max_attempts - 1
                     /\ accounts[leg_account(call[p])] = call[p].balance
                     /\ \A r \in NewTransactions(p) :
                            r.accountId = leg_account(call[p]) => call[p].leg = "credit")
    /\ [][\A p \in Procs :
            (pc[p] # "bt_create" /\ pc'[p] = "bt_create")
            => /\ pc[p] = "bt_fetch_latest"
               /\ call'[p].latest =
                      fetch_latest_transaction_number(transactions, leg_account(call[p]))]_vars

C14_Witness ==
    /\ pc["p1"] = "done"
    /\ call["p1"].result = DebitFailedText
    /\ call["p1"].attempt = max_attempts - 1
    /\ faults = 0
    /\ transactions = {}
    /\ accounts = pre["p1"].accounts

\* C15: under any interleaving of two transfers every stored Transaction
\* record has the id <account>-<number> and no two records of one account
\* share an id
C15_UniqueIdsOfAccountForm ==
    \A r \in transactions :
        /\ r.id = transaction_id(r.accountId, r.number - 1)
        /\ \A q \in transactions : (q.accountId = r.accountId /\ q.id = r.id) => q = r

RecordsOf(account) == {r \in transactions : r.accountId = account}

InRetryLoop(p) == pc[p] \in {"bt_fetch_latest", "bt_create"}

BothSucceeded ==
    \A p \in Procs :
        /\ pc[p] = "done"
        /\ call[p].path \in {"direct", "http"}
        /\ call[p].result = TransferredText

\* two finished bank_transfer calls that debit the same source, credit other
\* accounts, and whose amounts the balance they began with covers one by one
\* but not together
SameSourceRace(source) ==
    /\ BothSucceeded
    /\ \A p \in Procs :
          /\ call[p].fromAccount = source
          /\ call[p].toAccount # source
          /\ call[p].amount <= MaxBalance
    /\ call["p1"].amount + call["p2"].amount > MaxBalance

\* C17: when two concurrent bank_transfer calls on one source both report
\* success although the balance covered only one of them, each passed the
\* balance check on its own snapshot and the stored balance is the snapshot
\* of one caller less its amount: the other debit is lost or the money was
\* spent twice
C17_BalanceCheckRace ==
    \A source \in Accounts :
        SameSourceRace(source)
        => /\ \A p \in Procs : call[p].balance >= call[p].amount
           /\ \E p \in Procs : accounts[source] = call[p].balance - call[p].amount
           /\ accounts[source] > MaxBalance - call["p1"].amount - call["p2"].amount

C17_Witness ==
    /\ SameSourceRace("A")
    /\ call["p1"].path = "direct"
    /\ call["p2"].path = "http"
    /\ call["p1"].balance = MaxBalance
    /\ call["p2"].balance = MaxBalance
    /\ accounts["A"] = MaxBalance - call["p1"].amount

\* ------------------------------------------------------------------------
\* Dispatcher claims
\* ------------------------------------------------------------------------
Registry(server) ==
    IF server = "http" THEN TOOL_REGISTRY
    ELSE IF server = "simple" THEN TOOLS
    ELSE DirectTools

Answered == tool_call.stage = "responded"

StoresUntouched ==
    /\ accounts = tool_call.accounts
    /\ transactions = tool_call.transactions
    /\ MOCK_ACCOUNTS = tool_call.mock

\* C18: a call of a tool name that is in no registry runs no tool function and
\* is answered 404 by the two HTTP servers and by a raised unknown-tool error
\* in process
C18_UnknownToolIsNotFound ==
    (Answered
        /\ tool_call.tool_name \notin Registry(tool_call.server)
        /\ tool_call.status # "429")
    => /\ tool_call.executed = 0
       /\ StoresUntouched
       /\ tool_call.server \in {"http", "simple"} => tool_call.status = "404"
       /\ tool_call.server = "direct"
          => tool_call.status = "raised" /\ tool_call.error = UnknownToolText

\* the call the HTTP dispatcher has answered ran its tool function and ended
\* in a domain failure: no such account, or a balance below the amount
DomainFailure ==
    /\ Answered
    /\ tool_call.server = "http"
    /\ tool_call.executed = 1
    /\ \/ /\ tool_call.tool_name = "bank_balance"
          /\ tool_call.arguments.account_number \notin Accounts
       \/ /\ tool_call.tool_name = "bank_transfer"
          /\ tool_call.arguments.amount > 0
          /\ tool_call.arguments.thread_id # ""
          /\ \/ tool_call.arguments.fromAccount \notin Accounts
             \/ tool_call.accounts[tool_call.arguments.fromAccount]
                    < tool_call.arguments.amount

\* C19: a dispatched bank_transfer or bank_balance that ends in a domain
\* failure is answered with status 200, success = true and the failure text as
\* the result
C19_DomainFailureIsOrdinaryResult ==
    DomainFailure
    => /\ tool_call.status = "200"
       /\ tool_call.success = "true"
       /\ tool_call.error = "-"
       /\ tool_call.result \in {BalanceNotFoundText, SourceNotFoundText, InsufficientText}

C19_Witness ==
    /\ DomainFailure
    /\ tool_call.tool_name = "bank_transfer"
    /\ tool_call.arguments.fromAccount = "A"
    /\ tool_call.result = InsufficientText
    /\ tool_call.success = "true"

\* a tool function of the HTTP server is running or has run for this call
ToolFunctionCalled ==
    /\ tool_call.server = "http"
    /\ \/ tool_call.stage \in {"invoke", "returned"}
       \/ tool_call.executed > 0

\* C20: the HTTP dispatcher calls a tool function only when
\* check_tool_permission holds for the tool and the roles of the token; a call
\* without the permission is answered 403 and changes no store
C20_NoPermissionNoExecution ==
    /\ ToolFunctionCalled
       => check_tool_permission(tool_call.tool_name, tool_call.roles)
    /\ (Answered
          /\ tool_call.server = "http"
          /\ tool_call.status # "429"
          /\ tool_call.tool_name \in TOOL_REGISTRY
          /\ ~check_tool_permission(tool_call.tool_name, tool_call.roles))
       => /\ tool_call.status = "403"
          /\ tool_call.executed = 0
          /\ StoresUntouched

C20_Witness ==
    /\ Answered
    /\ tool_call.server = "http"
    /\ tool_call.tool_name = "bank_transfer"
    /\ tool_call.roles = {"read_only"}
    /\ tool_call.arguments.amount = 1
    /\ tool_call.status = "403"
    /\ StoresUntouched

\* ------------------------------------------------------------------------
\* The in-process path and the network path of bank_transfer, each run once
\* with the same arguments against the same initial store
\* ------------------------------------------------------------------------
PathsInit ==
    /\ RoutingIdle
    /\ x = NoX
    /\ CacheIdle
    /\ DispatchIdle
    /\ accounts \in [Accounts -> 0..MaxBalance]
    /\ transactions = {}
    /\ pc = [p \in Procs |-> "idle"]
    /\ call = [p \in Procs |-> NoCall]
    /\ pre = [p \in Procs |-> NoPre]
    /\ calls = MaxCalls - Cardinality(Procs)
    /\ faults = 0

\* the first run: p1 calls the in-process path
paths_direct_call ==
    /\ pc["p2"] = "idle"
    /\ _call_bank_transfer_direct("p1")

\* the store the in-process run left is set aside in pre["p1"] and the second
\* run gets the store the first run started from
same_store_again ==
    /\ pc["p1"] = "done"
    /\ pc["p2"] = "idle"
    /\ pc' = [pc EXCEPT !["p1"] = "kept"]
    /\ pre' = [pre EXCEPT !["p1"] = [accounts |-> accounts, transactions |-> transactions]]
    /\ accounts' = pre["p1"].accounts
    /\ transactions' = pre["p1"].transactions
    /\ UNCHANGED <<routingVars, x, cacheVars, dispatchVars, call, calls, faults>>

\* the second run: p2 calls the network path with the arguments of p1
paths_http_call ==
    /\ pc["p1"] = "kept"
    /\ call_bank_transfer("p2")
    /\ call'["p2"].fromAccount = call["p1"].fromAccount
    /\ call'["p2"].toAccount = call["p1"].toAccount
    /\ call'["p2"].amount = call["p1"].amount

PathsNext ==
    \/ paths_direct_call
    \/ d_fetch_from("p1")
    \/ d_fetch_to("p1")
    \/ d_latest_debit("p1")
    \/ d_create_debit("p1")
    \/ d_patch_from("p1")
    \/ d_latest_credit("p1")
    \/ d_create_credit("p1")
    \/ d_patch_to("p1")
    \/ same_store_again
    \/ paths_http_call
    \/ h_fetch_source("p2")
    \/ h_patch_source("p2")
    \/ h_fetch_dest("p2")
    \/ h_patch_dest("p2")
    \/ h_latest("p2")
    \/ h_create("p2")

PathsSpec == PathsInit /\ [][PathsNext]_vars

\* both runs are over: pre["p1"] holds the store after the in-process run,
\* the store itself is the one after the network run
BothPathsRan ==
    /\ pc["p1"] = "kept"
    /\ pc["p2"] = "done"
    /\ call["p2"].thread_id # ""

Accepted(p) == call[p].result = TransferredText

\* C21: with the same arguments and the same initial store the in-process
\* path and the network path of bank_transfer accept or reject the call alike
\* and leave the same account balances and the same set of Transaction records.
C21_PathsAgree ==
    BothPathsRan =>
        /\ Accepted("p1") <=> Accepted("p2")
        /\ accounts = pre["p1"].accounts
        /\ transactions = pre["p1"].transactions

\* ------------------------------------------------------------------------
\* Handler claims
\* ------------------------------------------------------------------------
\* C22: one execution of call_coordinator_agent invokes the coordinator at most
\* once; when the invocation raises, the error propagates: the handler yields
\* no routing Command, the run fails, and the coordinator was invoked exactly
\* once (no retry).
C22_CoordinatorInvokedOnceErrorPropagates ==
    [][\A t \in Threads :
          (node[t] = "coordinator_agent" /\ node'[t] # node[t]) =>
              /\ last'.handler = "coordinator_agent"
              /\ last'.thread = t
              /\ last'.invoked <= 1
              /\ last'.raised =>
                    /\ last'.invoked = 1
                    /\ last'.goto = "-"
                    /\ via'[t].goto = "-"
                    /\ node'[t] = "failed"]_vars

\* the coordinator was invoked and raised
C22_Witness ==
    /\ last.handler = "coordinator_agent"
    /\ last.raised
    /\ last.invoked = 1
    /\ node[last.thread] = "failed"

\* ------------------------------------------------------------------------
\* Ledger claims: order of writes, lost updates, retries, amounts
\* ------------------------------------------------------------------------
\* the call under way has changed the stored balance of the account
Patched(p, account) ==
    /\ pc[p] # "idle"
    /\ accounts[account] # pre[p].accounts[account]

\* the call under way has written a Transaction record of the account
Recorded(p, account) == \E r \in NewTransactions(p) : r.accountId = account

\* C23: on every transfer path the balance of an account is patched only after
\* the Transaction record of that leg was written: in no reachable state has a
\* call changed a balance while its record of that account does not exist.
C23_PatchOnlyAfterRecord ==
    \A a \in Accounts : Patched("p1", a) => Recorded("p1", a)

\* the same for the paths that write the record first
C23_RecordFirstPaths ==
    call["p1"].path # "http" => C23_PatchOnlyAfterRecord

\* the balance a leg read before it computed the balance in its record
SnapshotOf(r) == r.accountBalance + r.debitAmount - r.creditAmount

\* two finished calls of the ledger tool debited the account, their debit legs
\* are the only records of it, and both legs read the same balance
TwoDebitsOneSnapshot(account) ==
    /\ \A p \in Procs :
          /\ pc[p] = "done"
          /\ call[p].result = TransferredText
          /\ call[p].fromAccount = account
          /\ call[p].toAccount # account
    /\ Cardinality(RecordsOf(account)) = 2
    /\ \A r1, r2 \in RecordsOf(account) : SnapshotOf(r1) = SnapshotOf(r2)

\* C24: the retry on id conflicts does not prevent lost balance updates: when
\* two concurrent debit legs of one account read the same balance, both
\* records get written under distinct ids, and the stored balance is the one
\* of a single record: it reflects one leg only, not both amounts.
C24_LostUpdateDespiteRetry ==
    \A a \in Accounts :
        TwoDebitsOneSnapshot(a)
        => /\ \A r1, r2 \in RecordsOf(a) : r1.id = r2.id => r1 = r2
           /\ \E r \in RecordsOf(a) : accounts[a] = r.accountBalance
           /\ accounts[a] > MaxBalance - call["p1"].amount - call["p2"].amount

C24_Witness ==
    /\ TwoDebitsOneSnapshot("A")
    /\ {r.id : r \in RecordsOf("A")} = {"A-1", "A-2"}
    /\ \E p \in Procs : call[p].attempt > 0 \/ Cardinality(RecordsOf("B")) = 2
    /\ call["p1"].amount = 1
    /\ call["p2"].amount = 1
    /\ accounts["A"] = MaxBalance - 1

\* C25: in bank_transaction only a write conflict on create_transaction_record
\* starts another attempt; any other failure, such as an error raised by
\* fetch_latest_transaction_number, is surfaced at once without a retry.
C25_OnlyWriteConflictRetries ==
    [][\A p \in Procs :
          call'[p].attempt > call[p].attempt
          => /\ pc[p] = "bt_create"
             /\ write_conflict(transactions, transaction_data(call[p]))
             /\ faults' = faults]_vars

\* the records bank_transaction and _call_bank_transfer_direct write
LegRecords == {r \in transactions : "debitAmount" \in DOMAIN r}

\* C26: every Transaction record a transfer writes has debitAmount >= 0 and
\* creditAmount >= 0 with exactly one of the two nonzero, whatever amount the
\* caller passes.
C26_OneNonNegativeSide ==
    \A r \in LegRecords :
        /\ r.debitAmount >= 0
        /\ r.creditAmount >= 0
        /\ (r.debitAmount = 0) # (r.creditAmount = 0)

\* C27: with transfers applied one at a time and balances that start
\* non-negative, every account balance is >= 0 in every state the ledger tool
\* `transfer` reaches.
C27_BalancesNeverNegative ==
    call["p1"].path = "transfer" => \A a \in Accounts : accounts[a] >= 0

\* ------------------------------------------------------------------------
\* Handler claims: persistence and termination of a turn
\* ------------------------------------------------------------------------
\* C28: no execution of a handler sets the persisted activeAgent of a thread
\* to the name of the handler that executes.
C28_NeverPersistsExecutingHandler ==
    [][\A k \in Keys :
          chat_container'[k] # chat_container[k]
          => chat_container'[k] # last'.handler]_vars

\* C29: every turn terminates: from START, whatever goto the responses of the
\* handlers carry, the run reaches the human node, which suspends it, after a
\* bounded number of supersteps and handler executions; only a handler that
\* raises ends the turn otherwise, and handlers never keep routing among
\* themselves (a handler routing to itself included) without reaching human.
C29_TurnReachesHuman ==
    /\ [](\A t \in Threads :
            /\ graph[t].steps <= 3
            /\ graph[t].executions <= 7
            /\ graph[t].status # "ended"
            /\ graph[t].status = "suspended" => graph[t].interrupted
            /\ graph[t].status = "failed" => last.raised)
    /\ \A t \in Threads :
          (graph[t].status = "running") ~> (graph[t].status \in {"suspended", "failed"})

\* a turn in which every specialist routed to a handler, customer_support_agent
\* to itself, suspended at human
C29_Witness ==
    /\ graph["T1"].status = "suspended"
    /\ graph["T1"].steps = 3
    /\ graph["T1"].executions = 7
    /\ last.handler = "customer_support_agent"
    /\ last.goto = "customer_support_agent"

\* ------------------------------------------------------------------------
\* Dispatcher claims: argument validation
\* ------------------------------------------------------------------------
\* the arguments of the call carry an account_number or an amount of invalid
\* format
InvalidArguments ==
    \/ /\ "account_number" \in DOMAIN tool_call.arguments
       /\ ~validate_account_number(tool_call.arguments.account_number)
    \/ /\ "amount" \in DOMAIN tool_call.arguments
       /\ ~validate_amount(tool_call.arguments.amount)

\* the call got past the rate limit, the registry and the permission check
ReachedValidation ==
    /\ tool_call.server = "http"
    /\ tool_call.stage # "idle"
    /\ tool_call.status \notin {"429", "404", "403"}

\* C30: when the argument validation of call_tool of mcp_http_server fails
\* (account_number or amount of invalid format), the tool function is not
\* invoked, the response has success = false with the error text, and no store
\* changes.
C30_InvalidArgumentsNotDispatched ==
    (ReachedValidation /\ InvalidArguments)
    => /\ Answered
       /\ tool_call.executed = 0
       /\ tool_call.status = "200"
       /\ tool_call.success = "false"
       /\ tool_call.result = "-"
       /\ tool_call.error \in {AccountFormatText, AmountFormatText}
       /\ StoresUntouched
       /\ \A p \in Procs : pc[p] = "idle"

C30_Witness ==
    /\ ReachedValidation
    /\ InvalidArguments
    /\ tool_call.tool_name = "bank_transfer"
    /\ tool_call.roles = {"customer"}
    /\ tool_call.arguments.fromAccount = "A"
    /\ tool_call.arguments.toAccount = "B"
    /\ tool_call.arguments.amount = -1
    /\ tool_call.success = "false"
    /\ tool_call.error = AmountFormatText

\* ------------------------------------------------------------------------
\* Ledger claims: the two legs of `transfer` under store failures
\* ------------------------------------------------------------------------
\* the debit leg of the call wrote its record and patched the source
DebitCommitted(p) ==
    /\ \E r \in NewTransactions(p) :
          /\ r.accountId = call[p].fromAccount
          /\ r.debitAmount = call[p].amount
          /\ r.creditAmount = 0
    /\ call[p].fromAccount \in Accounts

\* C31: in `transfer` the credit leg is attempted only after the debit leg has
\* completed (committed, or returned that the source does not exist); when the
\* debit leg returns a failure after its attempts are exhausted the credit leg
\* is never attempted: no record is written, no balance changes.
C31_CreditOnlyAfterDebit ==
    /\ [](\A p \in Procs :
            (call[p].path = "transfer" /\ call[p].leg = "credit")
            => DebitCommitted(p) \/ call[p].fromAccount \notin Accounts)
    /\ [](\A p \in Procs :
            (call[p].path = "transfer" /\ call[p].result = DebitFailedText)
            => /\ call[p].leg = "debit"
               /\ NewTransactions(p) = {}
               /\ accounts = pre[p].accounts)
    /\ [][\A p \in Procs :
            (call[p].leg = "debit" /\ call'[p].leg = "credit")
            => \/ pc[p] = "bt_patch"
               \/ pc[p] = "bt_fetch_account" /\ call[p].fromAccount \notin Accounts]_vars

C31_Witness ==
    /\ pc["p1"] = "done"
    /\ call["p1"].result = DebitFailedText
    /\ call["p1"].fromAccount = "A"
    /\ call["p1"].toAccount = "B"
    /\ call["p1"].amount = 1
    /\ call["p1"].leg = "debit"
    /\ accounts["B"] = pre["p1"].accounts["B"]
    /\ RecordsOf("B") = {}

\* a finished `transfer` whose debit leg committed and whose credit leg, on an
\* account that exists, wrote nothing
CreditLegLost(p) ==
    /\ pc[p] = "done"
    /\ call[p].path = "transfer"
    /\ DebitCommitted(p)
    /\ call[p].toAccount \in Accounts
    /\ Cardinality(NewTransactions(p)) = 1

\* C32: when the credit leg of `transfer` exhausts its 5 attempts after the
\* debit leg committed, the transfer returns the credit-failure result, the
\* source stays debited, and nothing compensates: the debit record stays the
\* only record and no balance is restored.
C32_CreditFailureLeavesDebit ==
    \A p \in Procs :
        /\ CreditLegLost(p)
           => /\ call[p].result = CreditFailedText
              /\ call[p].attempt = max_attempts - 1
        /\ (pc[p] = "done" /\ call[p].result = CreditFailedText /\ DebitCommitted(p))
           => /\ Cardinality(NewTransactions(p)) = 1
              /\ accounts[call[p].fromAccount]
                    = pre[p].accounts[call[p].fromAccount] - call[p].amount
              /\ \A a \in Accounts \ {call[p].fromAccount} :
                    accounts[a] = pre[p].accounts[a]

C32_Witness ==
    /\ CreditLegLost("p1")
    /\ call["p1"].result = CreditFailedText
    /\ call["p1"].fromAccount = "A"
    /\ call["p1"].toAccount = "B"
    /\ call["p1"].amount = 1
    /\ pre["p1"].accounts["A"] = 1
    /\ accounts["A"] = 0
    /\ accounts["B"] = pre["p1"].accounts["B"]
    /\ faults = 0

\* ------------------------------------------------------------------------
\* Ledger claims: conservation of money
\* ------------------------------------------------------------------------
RECURSIVE SumOver(_, _)
SumOver(balances, S) ==
    IF S = {} THEN 0
    ELSE LET a == CHOOSE b \in S : TRUE
         IN  balances[a] + SumOver(balances, S \ {a})

\* the sum of all stored balances
TotalBalance(balances) == SumOver(balances, DOMAIN balances)

\* C33: a _call_bank_transfer_direct call that returns success, run without
\* concurrency, leaves the sum of all account balances unchanged, also when
\* fromAccount and toAccount are the same account, whose balance then stays
\* what it was.
C33_DirectTransferConservesTotal ==
    (pc["p1"] = "done" /\ call["p1"].path = "direct" /\ Accepted("p1"))
    => /\ TotalBalance(accounts) = TotalBalance(pre["p1"].accounts)
       /\ call["p1"].fromAccount = call["p1"].toAccount => accounts = pre["p1"].accounts

\* ------------------------------------------------------------------------
\* _call_bank_transfer_direct, one call, with a store whose calls may raise
\* ------------------------------------------------------------------------
DirectFaultNext ==
    \E p \in {"p1"} :
        \/ _call_bank_transfer_direct(p)
        \/ d_fetch_from(p)
        \/ d_fetch_to(p)
        \/ d_latest_debit(p)
        \/ d_create_debit(p)
        \/ d_patch_from(p)
        \/ d_latest_credit(p)
        \/ d_create_credit(p)
        \/ d_patch_to(p)
        \/ tool_return(p)

DirectFaultSpec == FaultInit /\ [][DirectFaultNext]_vars

\* C34: whenever _call_bank_transfer_direct returns a failure text (validation
\* message, not found, insufficient funds or 'Transfer failed') the store is
\* unchanged: the call wrote no Transaction record and patched no balance,
\* also when the failure is a write error on the credit leg.
C34_DirectFailureChangesNothing ==
    (pc["p1"] = "done" /\ call["p1"].path = "direct" /\ ~Accepted("p1"))
    => /\ accounts = pre["p1"].accounts
       /\ transactions = pre["p1"].transactions

\* C35: call_bank_transfer never takes money from the source without giving
\* the same amount to an existing destination: after a call that returns
\* success the sum of all account balances is unchanged.
C35_HttpTransferConservesTotal ==
    (pc["p1"] = "done" /\ call["p1"].path = "http" /\ Accepted("p1"))
    => TotalBalance(accounts) = TotalBalance(pre["p1"].accounts)

\* ------------------------------------------------------------------------
\* Dispatcher claims: the mock accounts, the tenant of a call
\* ------------------------------------------------------------------------
\* C36: in simple_mcp_server, after any sequence of bank_transfer calls with
\* arbitrary amounts (zero and negative included) every MOCK_ACCOUNTS balance
\* is >= 0 and the sum of the balances is what it was at the start (1 per
\* account); a call answered with a not-found or insufficient-funds text
\* changes no balance.
C36_MockBalancesSound ==
    /\ \A a \in MockAccounts : MOCK_ACCOUNTS[a] >= 0
    /\ TotalBalance(MOCK_ACCOUNTS) = Cardinality(MockAccounts)
    /\ (Answered
          /\ tool_call.server = "simple"
          /\ tool_call.tool_name = "bank_transfer"
          /\ tool_call.result \in {MockSourceNotFoundText, MockDestNotFoundText,
                                   MockInsufficientText})
       => MOCK_ACCOUNTS = tool_call.mock

\* C37: the tenantId call_tool of mcp_http_server hands to the tool function
\* is always the one of the authenticated token, whatever tenant_id the caller
\* put in the request body.
C37_TenantIsTheTokens ==
    ToolFunctionCalled => tool_call.tenantId = TokenData.tenant_id

\* ------------------------------------------------------------------------
\* Handler claims: who runs in a turn
\* ------------------------------------------------------------------------
\* C38: within one turn, after call_coordinator_agent returned a Command with
\* goto X, the only specialist handler that executes is X: the edges of the
\* graph never make another specialist run in the same turn.
C38_OnlySelectedSpecialistRuns ==
    \A t \in Threads :
        graph[t].selected \in edge_targets("coordinator_agent")
        => (graph[t].ran \cap edge_targets("coordinator_agent"))
               \subseteq {graph[t].selected}

\* ------------------------------------------------------------------------
\* mcp_server.py: the cached service table and the singleton server instance
\* ------------------------------------------------------------------------
\* if _cached_server_instance is None
instance_is_none_always(instance) == TRUE

instance_is_none(instance) == instance = NoInstance

\* a dict or an object is a new one each time it is built
new_object(kind, n) == kind \o ToString(n + 1)

\* get_cached_azure_services: the cached table if there is one, otherwise the
\* imports, which may raise, and then a new table that is cached and returned
get_cached_azure_services(cache, tables, imports_fail) ==
    IF cache # None
    THEN [cache |-> cache, tables |-> tables, raised |-> FALSE, result |-> cache]
    ELSE IF imports_fail
         THEN [cache |-> cache, tables |-> tables, raised |-> TRUE, result |-> None]
         ELSE [cache |-> new_object("table", tables), tables |-> tables + 1,
               raised |-> FALSE, result |-> new_object("table", tables)]

\* get_cached_server_instance has no await: a caller runs it in one step of
\* the event loop
get_cached_server_instance(c) ==
    /\ made.calls < MaxCacheCalls
    /\ \E imports_fail \in BOOLEAN :
          IF instance_is_none(cached_server_instance)
          THEN LET services == get_cached_azure_services(azure_services_cache,
                                                         made.tables, imports_fail)
               IN  /\ azure_services_cache' = services.cache
                   /\ IF services.raised
                      THEN /\ UNCHANGED <<cached_azure_services, cached_server_instance>>
                           /\ made' = [made EXCEPT !.calls = @ + 1]
                           /\ got' = [got EXCEPT ![c].raised = TRUE]
                      ELSE /\ cached_azure_services' = services.result
                           /\ cached_server_instance' =
                                  [id |-> new_object("instance", made.instances),
                                   azure_services |-> services.result]
                           /\ made' = [made EXCEPT !.calls = @ + 1,
                                                   !.tables = services.tables,
                                                   !.instances = @ + 1]
                           /\ got' = [got EXCEPT ![c].instance = cached_server_instance',
                                                 ![c].raised = FALSE]
          ELSE /\ UNCHANGED <<cached_server_instance, cached_azure_services,
                              azure_services_cache>>
               /\ made' = [made EXCEPT !.calls = @ + 1]
               /\ got' = [got EXCEPT ![c].instance = cached_server_instance,
                                     ![c].raised = FALSE]
    /\ UNCHANGED <<routingVars, x, ledgerVars, dispatchVars>>

\* a tool of the server asks for the table itself
tool_get_cached_azure_services(c) ==
    /\ made.calls < MaxCacheCalls
    /\ \E imports_fail \in BOOLEAN :
          LET services == get_cached_azure_services(azure_services_cache,
                                                    made.tables, imports_fail)
          IN  /\ azure_services_cache' = services.cache
              /\ made' = [made EXCEPT !.calls = @ + 1, !.tables = services.tables]
              /\ got' = [got EXCEPT ![c].services =
                                        IF services.raised THEN @ ELSE services.result,
                                    ![c].raised = services.raised]
    /\ UNCHANGED <<cached_server_instance, cached_azure_services>>
    /\ UNCHANGED <<routingVars, x, ledgerVars, dispatchVars>>

CacheInit ==
    /\ CacheIdle
    /\ RoutingIdle
    /\ LedgerIdle
    /\ DispatchIdle
    /\ x = NoX

CacheNext ==
    \/ \E c \in Callers : get_cached_server_instance(c)
    \/ \E c \in Callers : tool_get_cached_azure_services(c)

CacheSpec == CacheInit /\ [][CacheNext]_vars

\* every instance and every table a caller holds
InstancesHeld == {got[c].instance : c \in Callers} \ {NoInstance}

TablesHeld ==
    ({got[c].services : c \in Callers}
        \cup {got[c].instance.azure_services : c \in Callers}) \ {None}

\* C39: whatever the number of callers of get_cached_server_instance,
\* SharedMCPServerInstance is constructed at most once and every caller gets
\* the same instance; get_cached_azure_services builds its table at most once
\* and returns that same table afterwards.
C39_BuiltOnceAndShared ==
    /\ [](/\ made.instances <= 1
          /\ made.tables <= 1
          /\ Cardinality(InstancesHeld) <= 1
          /\ Cardinality(TablesHeld) <= 1)
    /\ [][/\ (cached_server_instance # NoInstance
                => cached_server_instance' = cached_server_instance)
          /\ (azure_services_cache # None
                => azure_services_cache' = azure_services_cache)]_vars

C39_Witness ==
    /\ \A c \in Callers : got[c].instance = cached_server_instance
    /\ cached_server_instance # NoInstance
    /\ \E c \in Callers : got[c].services = azure_services_cache
    /\ made.calls = MaxCacheCalls
====
